---- MODULE Spec2Model ----
(***************************************************************************)
(* OKR scoring and aggregation engine of glynncv/esol_2025.                *)
(*                                                                         *)
(* Modelled code: scripts/etl/analysis/okr_aggregator.py together with the *)
(* three counting analyzers it calls (esol_analyzer.py, win11_analyzer.py, *)
(* kiosk_analyzer.py) and DataLoader.filter_kiosk_devices; the snapshot    *)
(* store scripts/etl/analysis/historical_store.py and the trend rules of   *)
(* scripts/etl/analysis/trend_analyzer.py.                                 *)
(*                                                                         *)
(* Python floats are modelled as exact rationals <<n, d>> in lowest terms  *)
(* with d > 0; <<1, 0>> stands for the outcome of a division by zero       *)
(* (Python raises ZeroDivisionError).  round(x, k) is modelled as          *)
(* round-half-to-even on the exact value.                                  *)
(***************************************************************************)
EXTENDS Integers, Sequences, FiniteSets, TLC

VARIABLES config, args, frame, scores, raised, pc,
          df, dimension, df_results, aggRaised, aggPc, scoredPartitions,
          files, saved, storeOp, writing, trendOp, run,
          current_date, calcOp

scoreVars == <<args, frame, scores, raised, pc>>
aggVars == <<df, dimension, df_results, aggRaised, aggPc, scoredPartitions>>
storeVars == <<files, saved, storeOp, writing>>
trendVars == <<trendOp>>
runVars == <<run>>
calcVars == <<current_date, calcOp>>
vars == <<config, scoreVars, aggVars, storeVars, trendVars, runVars,
         calcVars>>

(***************************************************************************)
(* Bounds of the model.                                                    *)
(***************************************************************************)
MaxEsol == 2
MaxKiosk == 2
MaxRows == 2
MaxSaves == 2
MaxTrendRows == 2

MaxSnapshots == 3

MaxRuns == 3

(***************************************************************************)
(* Exact rational arithmetic standing for Python float arithmetic.         *)
(***************************************************************************)
Abs(x) == IF x < 0 THEN -x ELSE x

RECURSIVE GCD(_, _)
GCD(a, b) == IF b = 0 THEN a ELSE GCD(b, a % b)

DivZero == <<1, 0>>

IsDivZero(r) == r[2] = 0

Rat(n, d) ==
    IF d = 0 THEN DivZero
    ELSE LET g == GCD(Abs(n), Abs(d))
             s == IF d < 0 THEN -1 ELSE 1
         IN <<(s * n) \div g, (s * d) \div g>>

R(i) == <<i, 1>>

RAdd(a, b) == IF IsDivZero(a) \/ IsDivZero(b) THEN DivZero
              ELSE Rat(a[1] * b[2] + b[1] * a[2], a[2] * b[2])

RSub(a, b) == IF IsDivZero(a) \/ IsDivZero(b) THEN DivZero
              ELSE Rat(a[1] * b[2] - b[1] * a[2], a[2] * b[2])

RMul(a, b) == IF IsDivZero(a) \/ IsDivZero(b) THEN DivZero
              ELSE Rat(a[1] * b[1], a[2] * b[2])

RDiv(a, b) == IF IsDivZero(a) \/ IsDivZero(b) \/ b[1] = 0 THEN DivZero
              ELSE Rat(a[1] * b[2], a[2] * b[1])

RLe(a, b) == a[1] * b[2] <= b[1] * a[2]

RLt(a, b) == a[1] * b[2] < b[1] * a[2]

RMax(a, b) == IF IsDivZero(a) \/ IsDivZero(b) THEN DivZero
              ELSE IF RLe(a, b) THEN b ELSE a

RMin(a, b) == IF IsDivZero(a) \/ IsDivZero(b) THEN DivZero
              ELSE IF RLe(a, b) THEN a ELSE b

Pow10(k) == IF k = 0 THEN 1 ELSE IF k = 1 THEN 10 ELSE 100

\* round(x, k) of Python 3: nearest multiple of 10^-k, ties to even.
Round(x, k) ==
    IF IsDivZero(x) THEN DivZero
    ELSE LET n == x[1] * Pow10(k)
             d == x[2]
             q == n \div d
             rem == n - q * d
             up == \/ 2 * rem > d
                   \/ (2 * rem = d /\ q % 2 = 1)
         IN Rat(IF up THEN q + 1 ELSE q, Pow10(k))

(***************************************************************************)
(* Configuration handed to OKRAggregator.__init__ by the ConfigManager.    *)
(* Weights, targets and status thresholds are cached by __init__ (the      *)
(* weight sets are non-negative and sum to 100, the sum that               *)
(* ConfigManager.validate_config looks for); the                           *)
(* penalty_thresholds section is part of the okr_criteria the tests pass   *)
(* (test_penalty_thresholds.py) and is carried in the configuration.       *)
(***************************************************************************)
WeightSets ==
    { [kr1_esol_2024 |-> 25, kr2_esol_2025 |-> 25,
       kr3_win11_compatibility |-> 40, kr4_kiosk_reprovisioning |-> 10],
      [kr1_esol_2024 |-> 10, kr2_esol_2025 |-> 0,
       kr3_win11_compatibility |-> 50, kr4_kiosk_reprovisioning |-> 40] }

KR3Targets == {-10, 0, 90}

KR4Targets == {0, 1}

StatusThresholdSets ==
    { [on_track_min_progress |-> 80, caution_min_progress |-> 60],
      [on_track_min_progress |-> 70, caution_min_progress |-> 70],
      [on_track_min_progress |-> 60, caution_min_progress |-> 80] }

PenaltyThresholdSets ==
    { [kr1_penalty_threshold_percentage |-> R(1),
       kr2_penalty_threshold_percentage |-> R(5)],
      [kr1_penalty_threshold_percentage |-> Rat(1, 2),
       kr2_penalty_threshold_percentage |-> R(2)] }

Configs ==
    { [weights |-> w,
       targets |-> [kr3_target_percentage |-> t3, kr4_target_count |-> t4],
       thresholds |-> th,
       penalty_thresholds |-> p] :
        w \in WeightSets, t3 \in KR3Targets, t4 \in KR4Targets,
        th \in StatusThresholdSets, p \in PenaltyThresholdSets }

DefaultConfig ==
    [weights |-> [kr1_esol_2024 |-> 25, kr2_esol_2025 |-> 25,
                  kr3_win11_compatibility |-> 40, kr4_kiosk_reprovisioning |-> 10],
     targets |-> [kr3_target_percentage |-> 90, kr4_target_count |-> 0],
     thresholds |-> [on_track_min_progress |-> 80, caution_min_progress |-> 60],
     penalty_thresholds |-> [kr1_penalty_threshold_percentage |-> R(1),
                             kr2_penalty_threshold_percentage |-> R(5)]]

(***************************************************************************)
(* Arguments of calculate_okr_scores: the three count dictionaries.        *)
(***************************************************************************)
TotalDevicesSet == {0, 20, 100, 1000}

Win11AdoptionPcts == {R(0), R(45), Rat(337, 5), R(90), R(95)}

ScoreArgs ==
    { [esol_counts |-> [total_devices |-> t, esol_2024 |-> e4, esol_2025 |-> e5],
       win11_counts |-> [win11_adoption_pct |-> w],
       kiosk_counts |-> [enterprise_count |-> k]] :
        t \in TotalDevicesSet, e4 \in 0..MaxEsol, e5 \in 0..MaxEsol,
        w \in Win11AdoptionPcts, k \in 0..MaxKiosk }

\* Counts come from the analyzers: a category count never exceeds the total.
ReachableScoreArgs ==
    { a \in ScoreArgs :
        /\ a.esol_counts.esol_2024 + a.esol_counts.esol_2025
              <= a.esol_counts.total_devices
        /\ a.kiosk_counts.enterprise_count <= a.esol_counts.total_devices
        /\ (a.esol_counts.total_devices = 0
              => a.win11_counts.win11_adoption_pct = R(0)) }

None == [none |-> TRUE]

(***************************************************************************)
(* OKRAggregator.calculate_okr_scores, okr_aggregator.py lines 42-124.     *)
(***************************************************************************)
\* (current / total_devices) * 100 if total_devices > 0 else 0
UnguardedPct(current, total_devices) ==
    RMul(RDiv(R(current), R(total_devices)), R(100))

Pct(current, total_devices) ==
    IF total_devices > 0
    THEN RMul(RDiv(R(current), R(total_devices)), R(100))
    ELSE R(0)

\* The divisors written as literals in lines 71 and 78.
KR1PenaltyDivisor == 1

KR2PenaltyDivisor == 5

\* max(0, 100 - (pct / divisor) * 100) if pct > 0 else 100
PenaltyScore(pct, divisor) ==
    IF RLt(R(0), pct)
    THEN RMax(R(0), RSub(R(100), RMul(RDiv(pct, divisor), R(100))))
    ELSE R(100)

\* min(100, (kr3_current / kr3_target) * 100) if kr3_target > 0 else 100
UnguardedKR3Score(kr3_current, kr3_target) ==
    RMin(R(100), RMul(RDiv(kr3_current, R(kr3_target)), R(100)))

KR3Score(kr3_current, kr3_target) ==
    IF kr3_target > 0
    THEN RMin(R(100), RMul(RDiv(kr3_current, R(kr3_target)), R(100)))
    ELSE R(100)

\* 100.0 if kr4_current <= kr4_target else 0.0
StrictKR4Score(kr4_current, kr4_target) ==
    IF kr4_current < kr4_target THEN R(100) ELSE R(0)

KR4Score(kr4_current, kr4_target) ==
    IF kr4_current <= kr4_target THEN R(100) ELSE R(0)

\* kr1_score * (w1 / 100) + kr2_score * (w2 / 100) + ...
UnscaledWeightedScore(weights, kr1_score, kr2_score, kr3_score, kr4_score) ==
    RAdd(RAdd(RAdd(
        RMul(kr1_score, RDiv(R(weights.kr1_esol_2024), R(100))),
        RMul(kr2_score, RDiv(R(weights.kr2_esol_2025), R(100)))),
        RMul(kr3_score, RDiv(R(weights.kr3_win11_compatibility), R(100)))),
        RMul(kr4_score, R(weights.kr4_kiosk_reprovisioning)))

WeightedScore(weights, kr1_score, kr2_score, kr3_score, kr4_score) ==
    RAdd(RAdd(RAdd(
        RMul(kr1_score, RDiv(R(weights.kr1_esol_2024), R(100))),
        RMul(kr2_score, RDiv(R(weights.kr2_esol_2025), R(100)))),
        RMul(kr3_score, RDiv(R(weights.kr3_win11_compatibility), R(100)))),
        RMul(kr4_score, RDiv(R(weights.kr4_kiosk_reprovisioning), R(100))))

\* if okr_score >= on_track: 'ON TRACK' elif okr_score >= caution: 'CAUTION'
\* else: 'AT RISK'
CautionFirstStatus(okr_score, thresholds) ==
    IF RLe(R(thresholds.caution_min_progress), okr_score) THEN "CAUTION"
    ELSE IF RLe(R(thresholds.on_track_min_progress), okr_score) THEN "ON TRACK"
    ELSE "AT RISK"

\* A classification that puts the two thresholds in order before it
\* compares.
SortedThresholdStatus(okr_score, thresholds) ==
    LET upper == IF thresholds.on_track_min_progress
                        >= thresholds.caution_min_progress
                 THEN thresholds.on_track_min_progress
                 ELSE thresholds.caution_min_progress
        lower == IF thresholds.on_track_min_progress
                        >= thresholds.caution_min_progress
                 THEN thresholds.caution_min_progress
                 ELSE thresholds.on_track_min_progress
    IN IF RLe(R(upper), okr_score) THEN "ON TRACK"
       ELSE IF RLe(R(lower), okr_score) THEN "CAUTION"
       ELSE "AT RISK"

Status(okr_score, thresholds) ==
    IF RLe(R(thresholds.on_track_min_progress), okr_score) THEN "ON TRACK"
    ELSE IF RLe(R(thresholds.caution_min_progress), okr_score) THEN "CAUTION"
    ELSE "AT RISK"

\* The local variables of one call, before the return statement rounds them.
Locals(cfg, esol_counts, win11_counts, kiosk_counts) ==
    LET total_devices == esol_counts.total_devices
        kr1_current == esol_counts.esol_2024
        kr1_pct == Pct(kr1_current, total_devices)
        kr1_score == PenaltyScore(kr1_pct, R(KR1PenaltyDivisor))
        kr2_current == esol_counts.esol_2025
        kr2_pct == Pct(kr2_current, total_devices)
        kr2_score == PenaltyScore(kr2_pct, R(KR2PenaltyDivisor))
        kr3_current == win11_counts.win11_adoption_pct
        kr3_target == cfg.targets.kr3_target_percentage
        kr3_score == KR3Score(kr3_current, kr3_target)
        kr4_current == kiosk_counts.enterprise_count
        kr4_target == cfg.targets.kr4_target_count
        kr4_score == KR4Score(kr4_current, kr4_target)
        okr_score == WeightedScore(cfg.weights, kr1_score, kr2_score,
                                   kr3_score, kr4_score)
    IN [total_devices |-> total_devices,
        kr1_current |-> kr1_current, kr1_pct |-> kr1_pct, kr1_score |-> kr1_score,
        kr2_current |-> kr2_current, kr2_pct |-> kr2_pct, kr2_score |-> kr2_score,
        kr3_current |-> kr3_current, kr3_target |-> kr3_target,
        kr3_score |-> kr3_score,
        kr4_current |-> kr4_current, kr4_target |-> kr4_target,
        kr4_score |-> kr4_score,
        okr_score |-> okr_score,
        status |-> IF IsDivZero(okr_score) THEN "AT RISK"
                   ELSE Status(okr_score, cfg.thresholds)]

\* A division by zero anywhere in the body raises ZeroDivisionError.
Raises(l) ==
    \/ IsDivZero(l.kr1_pct) \/ IsDivZero(l.kr2_pct)
    \/ IsDivZero(l.kr1_score) \/ IsDivZero(l.kr2_score)
    \/ IsDivZero(l.kr3_score) \/ IsDivZero(l.okr_score)

\* The dictionary of the return statement, lines 109-124.
Returned(l) ==
    [total_devices |-> l.total_devices,
     kr1_score |-> Round(l.kr1_score, 1),
     kr1_value |-> l.kr1_current,
     kr1_pct |-> Round(l.kr1_pct, 2),
     kr2_score |-> Round(l.kr2_score, 1),
     kr2_value |-> l.kr2_current,
     kr2_pct |-> Round(l.kr2_pct, 2),
     kr3_score |-> Round(l.kr3_score, 1),
     kr3_value |-> Round(l.kr3_current, 2),
     kr4_score |-> Round(l.kr4_score, 1),
     kr4_value |-> l.kr4_current,
     okr_score |-> Round(l.okr_score, 1),
     status |-> l.status]

\* How a call with the local variables l ends: it raises, or it returns the
\* dictionary.
Outcome(l) ==
    IF Raises(l)
    THEN [raised |-> "ZeroDivisionError", locals |-> l, result |-> None]
    ELSE [raised |-> "none", locals |-> l, result |-> Returned(l)]

calculate_okr_scores(cfg, esol_counts, win11_counts, kiosk_counts) ==
    Outcome(Locals(cfg, esol_counts, win11_counts, kiosk_counts))

(***************************************************************************)
(* Scoring specification: an aggregator is constructed with a              *)
(* configuration, and calculate_okr_scores is called on count              *)
(* dictionaries.                                                           *)
(***************************************************************************)
NoFrame == [none |-> TRUE]

EmptyArgs ==
    [esol_counts |-> [total_devices |-> 0, esol_2024 |-> 0, esol_2025 |-> 0],
     win11_counts |-> [win11_adoption_pct |-> R(0)],
     kiosk_counts |-> [enterprise_count |-> 0]]

AggIdle ==
    /\ df = [columns |-> {}, rows |-> <<>>]
    /\ dimension = "Country"
    /\ df_results = <<>>
    /\ aggRaised = "none"
    /\ aggPc = "idle"
    /\ scoredPartitions = <<>>

\* No call made on the snapshot store.
NoCall == [op |-> "none"]

\* HistoricalDataStore.__init__: the history directory exists and, when the
\* store is new, holds no snapshot file.
StoreIdle ==
    /\ files = <<>>
    /\ saved = <<>>
    /\ storeOp = NoCall
    /\ writing = None

TrendIdle == trendOp = NoCall

\* main has not started.
NoRun ==
    [pc |-> "idle", now |-> None, ended |-> <<>>, overall_scores |-> None,
     country_scores |-> None, sdm_scores |-> None, site_scores |-> None,
     previous_snapshot |-> None, all_snapshots |-> <<>>, trend_data |-> None,
     burndown_trends |-> None, snapshot_path |-> None]

RunIdle == run = NoRun

\* No BurndownCalculator was constructed.
CalcIdle == current_date = None /\ calcOp = NoCall

InitScore ==
    /\ config \in Configs
    /\ args \in ReachableScoreArgs
    /\ frame = NoFrame
    /\ scores = None
    /\ raised = "none"
    /\ pc = "ready"
    /\ AggIdle
    /\ StoreIdle
    /\ TrendIdle
    /\ RunIdle
    /\ CalcIdle

CalculateOkrScores ==
    /\ pc = "ready"
    /\ LET r == calculate_okr_scores(config, args.esol_counts,
                                     args.win11_counts, args.kiosk_counts)
       IN /\ frame' = r.locals
          /\ scores' = r.result
          /\ raised' = r.raised
    /\ pc' = "returned"
    /\ UNCHANGED <<config, args, aggVars, storeVars, trendVars, runVars,
                 calcVars>>

NextScore == CalculateOkrScores

SpecScore == InitScore /\ [][NextScore]_vars


(***************************************************************************)
(* The record set handed to aggregate_by_dimension: a DataFrame with a     *)
(* set of columns and a sequence of device rows.  A row carries a value    *)
(* for every dimension column of the frame and the fields the counting     *)
(* analyzers read: the action, the edition, whether the OS build matches   *)
(* the Windows 11 pattern and whether the device or user name matches the  *)
(* kiosk patterns.                                                         *)
(***************************************************************************)
\* A missing value of a column (None / NaN).
NaN == "<NaN>"

esol_2024_action == "Urgent Replacement"

esol_2025_action == "Replace by 14/10/2025"

migration_actions == {esol_2024_action, esol_2025_action}

DimensionValues == {NaN, "Unknown", "UK", "FR"}

DeviceKinds ==
    { [action |-> "N/A", edition |-> "Enterprise", win11 |-> TRUE, kiosk |-> FALSE],
      [action |-> esol_2024_action, edition |-> "Enterprise", win11 |-> FALSE,
       kiosk |-> FALSE],
      [action |-> "N/A", edition |-> "LTSC", win11 |-> FALSE, kiosk |-> TRUE],
      [action |-> "N/A", edition |-> "Enterprise", win11 |-> FALSE, kiosk |-> TRUE] }

FrameColumns == {"Country"}

RequestedDimensions == {"Country", "SDM"}

DeviceRows ==
    { [dims |-> [c \in FrameColumns |-> v], action |-> k.action,
       edition |-> k.edition, win11 |-> k.win11, kiosk |-> k.kiosk] :
        v \in DimensionValues, k \in DeviceKinds }

DataFrames ==
    { [columns |-> FrameColumns, rows |-> r] :
        r \in UNION { [1..n -> DeviceRows] : n \in 0..MaxRows } }

\* ESOLAnalyzer.calculate_esol_counts
calculate_esol_counts(rows) ==
    LET Is2024(r) == r.action = esol_2024_action
        Is2025(r) == r.action = esol_2025_action
    IN [total_devices |-> Len(rows),
        esol_2024 |-> Len(SelectSeq(rows, Is2024)),
        esol_2025 |-> Len(SelectSeq(rows, Is2025))]

\* Win11Analyzer.calculate_win11_counts
calculate_win11_counts(enterprise_rows) ==
    LET total_enterprise == Len(enterprise_rows)
        OnWin11(r) == r.win11 /\ r.action \notin migration_actions
        Migrating(r) == r.action \in migration_actions
        enterprise_win11_count == Len(SelectSeq(enterprise_rows, OnWin11))
        enterprise_esol_count == Len(SelectSeq(enterprise_rows, Migrating))
        total_enterprise_win11_path == enterprise_win11_count + enterprise_esol_count
    IN [win11_adoption_pct |->
            IF total_enterprise > 0
            THEN Round(RMul(RDiv(R(total_enterprise_win11_path),
                                 R(total_enterprise)), R(100)), 2)
            ELSE R(0)]

\* DataLoader.filter_kiosk_devices
filter_kiosk_devices(rows) ==
    LET IsKiosk(r) == r.kiosk IN SelectSeq(rows, IsKiosk)

\* KioskAnalyzer.calculate_kiosk_counts
calculate_kiosk_counts(kiosk_rows, total_devices) ==
    LET IsEnterprise(r) == r.edition = "Enterprise"
    IN [enterprise_count |-> Len(SelectSeq(kiosk_rows, IsEnterprise))]

(***************************************************************************)
(* OKRAggregator.aggregate_by_dimension, okr_aggregator.py lines 126-210.  *)
(***************************************************************************)
\* df[dimension].unique(): the distinct values in order of first appearance.
RECURSIVE Unique(_, _)
Unique(values, seen) ==
    IF values = <<>> THEN <<>>
    ELSE IF Head(values) \in seen THEN Unique(Tail(values), seen)
    ELSE <<Head(values)>> \o Unique(Tail(values), seen \cup {Head(values)})

UniqueValues(d, dim) ==
    Unique([i \in 1..Len(d.rows) |-> d.rows[i].dims[dim]], {})

\* if pd.isna(value) or value == 'Unknown': continue
SkipsOnlyMissing(value) == value = NaN

Skipped(value) == value = NaN \/ value = "Unknown"

\* dim_df = df_enriched[df_enriched[dimension] == value]
Partition(d, dim, value) ==
    LET HasValue(r) == r.dims[dim] = value IN SelectSeq(d.rows, HasValue)

\* scores[dimension] = value; results.append(scores)
LabelledRow(dim, value, r) ==
    [raised |-> r.raised,
     row |-> IF r.raised = "none" THEN (dim :> value) @@ r.result ELSE None]

\* The body of the loop for one dimension value, lines 153-203.
ScorePartition(cfg, d, dim, value) ==
    LET dim_df == Partition(d, dim, value)
        esol_counts == calculate_esol_counts(dim_df)
        IsEnterprise(r) == r.edition = "Enterprise"
        enterprise_df == SelectSeq(dim_df, IsEnterprise)
        win11_counts == IF Len(enterprise_df) > 0
                        THEN calculate_win11_counts(enterprise_df)
                        ELSE [win11_adoption_pct |-> R(0)]
        kiosk_df == filter_kiosk_devices(dim_df)
        kiosk_counts == IF Len(kiosk_df) > 0
                        THEN calculate_kiosk_counts(kiosk_df, Len(dim_df))
                        ELSE [enterprise_count |-> 0]
    IN LabelledRow(dim, value,
           calculate_okr_scores(cfg, esol_counts, win11_counts, kiosk_counts))

\* The values of the loop that are scored, in order of discovery.
ScoredValues(d, dim) ==
    LET Kept(v) == ~Skipped(v) IN SelectSeq(UniqueValues(d, dim), Kept)

\* results, the list built by the loop: one outcome per scored value.
RECURSIVE ScoreEach(_, _, _, _)
ScoreEach(cfg, d, dim, values) ==
    IF values = <<>> THEN <<>>
    ELSE <<ScorePartition(cfg, d, dim, Head(values))>>
             \o ScoreEach(cfg, d, dim, Tail(values))

LoopResults(cfg, d, dim) == ScoreEach(cfg, d, dim, ScoredValues(d, dim))

RECURSIVE RowsOf(_)
RowsOf(outcomes) ==
    IF outcomes = <<>> THEN <<>>
    ELSE <<Head(outcomes).row>> \o RowsOf(Tail(outcomes))

Orderings(n) ==
    { f \in [1..n -> 1..n] : \A i, j \in 1..n : f[i] = f[j] => i = j }

IsDescending(rows) ==
    \A i \in 1..(Len(rows) - 1) : RLe(rows[i + 1].okr_score, rows[i].okr_score)

\* df_results.sort_values('okr_score', ascending=False): the default kind is
\* 'quicksort', which pandas documents as not stable, so rows with an equal
\* okr_score may come out in any order.
sort_values(rows) ==
    { s \in { [i \in 1..Len(rows) |-> rows[f[i]]] : f \in Orderings(Len(rows)) } :
        IsDescending(s) }

\* df_results = pd.DataFrame(results), sorted if it has rows; an exception of
\* the loop leaves the call before this point.
SortedFrame(looped, scored) ==
    IF \E i \in 1..Len(looped) : looped[i].raised # "none"
    THEN [raised |-> "ZeroDivisionError", returns |-> {}, scored |-> scored]
    ELSE [raised |-> "none",
          returns |-> IF Len(looped) > 0 THEN sort_values(RowsOf(looped))
                      ELSE {<<>>},
          scored |-> scored]

\* Outcome of a call whose dimension is a column of the frame.
AggregateColumn(cfg, d, dim) ==
    SortedFrame(LoopResults(cfg, d, dim), ScoredValues(d, dim))

\* if dimension not in df_enriched.columns: raise ValueError(...)
SilentAggregateByDimension(cfg, d, dim) ==
    IF dim \notin d.columns
    THEN [raised |-> "none", returns |-> {<<>>}, scored |-> <<>>]
    ELSE AggregateColumn(cfg, d, dim)

aggregate_by_dimension(cfg, d, dim) ==
    IF dim \notin d.columns
    THEN [raised |-> "ValueError", returns |-> {}, scored |-> <<>>]
    ELSE AggregateColumn(cfg, d, dim)

(***************************************************************************)
(* Aggregation specification: an aggregator with its configuration, a      *)
(* record set, and calls of aggregate_by_dimension.  df_results is the     *)
(* value of the last call that returned; scoredPartitions lists the        *)
(* dimension values the last call scored.                                  *)
(***************************************************************************)
ScoreIdle ==
    /\ args = EmptyArgs
    /\ frame = NoFrame
    /\ scores = None
    /\ raised = "none"
    /\ pc = "ready"

InitAgg ==
    /\ config = DefaultConfig
    /\ df \in DataFrames
    /\ dimension = "Country"
    /\ df_results = <<>>
    /\ aggRaised = "none"
    /\ aggPc = "idle"
    /\ scoredPartitions = <<>>
    /\ ScoreIdle
    /\ StoreIdle
    /\ TrendIdle
    /\ RunIdle
    /\ CalcIdle

AggregateByDimension(dim) ==
    LET out == aggregate_by_dimension(config, df, dim)
    IN /\ dimension' = dim
       /\ aggRaised' = out.raised
       /\ scoredPartitions' = out.scored
       /\ IF out.raised = "none"
          THEN /\ df_results' \in out.returns
               /\ aggPc' = "returned"
          ELSE /\ df_results' = df_results
               /\ aggPc' = "raised"
       /\ UNCHANGED <<config, df, scoreVars, storeVars, trendVars, runVars,
                    calcVars>>

NextAgg == \E dim \in RequestedDimensions : AggregateByDimension(dim)

SpecAgg == InitAgg /\ [][NextAgg]_vars

(***************************************************************************)
(* Properties of the scoring rules (checked under SpecScore).              *)
(***************************************************************************)
InUnitRange(x) == RLe(R(0), x) /\ RLe(x, R(100))

Called == pc = "returned"

\* The rule as stated for a zero-target percentage KR with penalty threshold p.
StatedPenaltyScore(x, p) ==
    IF x = R(0) THEN R(100)
    ELSE RMax(R(0), RSub(R(100), RMul(RDiv(x, p), R(100))))

\* C1: for KR1 and KR2, with x the current percentage and p the KR's
\* configured penalty threshold, the score is 100 at x = 0 and
\* max(0, 100 - (x/p)*100) otherwise, hence 0 for every x >= p and always
\* within [0,100].
C1_PenaltyScoreFollowsThreshold ==
    (Called /\ raised = "none") =>
        LET p1 == config.penalty_thresholds.kr1_penalty_threshold_percentage
            p2 == config.penalty_thresholds.kr2_penalty_threshold_percentage
        IN /\ frame.kr1_score = StatedPenaltyScore(frame.kr1_pct, p1)
           /\ frame.kr2_score = StatedPenaltyScore(frame.kr2_pct, p2)
           /\ (RLe(p1, frame.kr1_pct) => frame.kr1_score = R(0))
           /\ (RLe(p2, frame.kr2_pct) => frame.kr2_score = R(0))
           /\ InUnitRange(frame.kr1_score)
           /\ InUnitRange(frame.kr2_score)

\* Two configurations that differ only in the two penalty thresholds.
DiffersOnlyInPenalty(c1, c2) ==
    /\ c1.weights = c2.weights
    /\ c1.targets = c2.targets
    /\ c1.thresholds = c2.thresholds
    /\ c1.penalty_thresholds.kr1_penalty_threshold_percentage
         # c2.penalty_thresholds.kr1_penalty_threshold_percentage
    /\ c1.penalty_thresholds.kr2_penalty_threshold_percentage
         # c2.penalty_thresholds.kr2_penalty_threshold_percentage

BelowBothThresholds(l, c1, c2) ==
    /\ RLt(R(0), l.kr1_pct)
    /\ RLt(l.kr1_pct, c1.penalty_thresholds.kr1_penalty_threshold_percentage)
    /\ RLt(l.kr1_pct, c2.penalty_thresholds.kr1_penalty_threshold_percentage)
    /\ RLt(R(0), l.kr2_pct)
    /\ RLt(l.kr2_pct, c1.penalty_thresholds.kr2_penalty_threshold_percentage)
    /\ RLt(l.kr2_pct, c2.penalty_thresholds.kr2_penalty_threshold_percentage)

\* C2: the penalty thresholds come from the configuration: for the same raw
\* counts with a non-zero ESOL percentage below both thresholds, an
\* aggregator built from a configuration that differs only in the penalty
\* thresholds returns a different kr1_score and a different kr2_score.
C2_PenaltyThresholdsFromConfig ==
    (Called /\ raised = "none") =>
        \A c2 \in Configs :
            (DiffersOnlyInPenalty(config, c2)
               /\ BelowBothThresholds(frame, config, c2)) =>
                LET other == calculate_okr_scores(c2, args.esol_counts,
                                 args.win11_counts, args.kiosk_counts).result
                IN /\ other.kr1_score # scores.kr1_score
                   /\ other.kr2_score # scores.kr2_score

\* C3: the KR3 score is min(100, (current/target)*100) for target > 0 and
\* 100 for target <= 0: 100 at current = target, 100 above it, 0 at
\* current = 0, and no target divides by zero.
C3_TargetPercentageScore ==
    Called =>
        LET current == args.win11_counts.win11_adoption_pct
            target == config.targets.kr3_target_percentage
        IN /\ raised = "none"
           /\ ~IsDivZero(frame.kr3_score)
           /\ (target > 0 =>
                 /\ (RLe(R(target), current) => frame.kr3_score = R(100))
                 /\ (RLt(current, R(target)) =>
                        frame.kr3_score = Rat(current[1] * 100, current[2] * target))
                 /\ (current = R(0) => frame.kr3_score = R(0))
                 /\ RLe(frame.kr3_score, R(100)))
           /\ (target <= 0 => frame.kr3_score = R(100))

C3_Witness ==
    /\ Called
    /\ config.targets.kr3_target_percentage = 90
    /\ args.win11_counts.win11_adoption_pct = R(95)
    /\ frame.kr3_score = R(100)

\* C4: the KR4 score is binary: 100 exactly when count <= target_count
\* (also for a non-zero allowance) and 0 otherwise.
C4_CountScoreBinary ==
    Called =>
        LET count == args.kiosk_counts.enterprise_count
            target_count == config.targets.kr4_target_count
        IN /\ (frame.kr4_score = R(100)) <=> (count <= target_count)
           /\ (frame.kr4_score = R(0)) <=> (count > target_count)

C4_Witness ==
    /\ Called
    /\ config.targets.kr4_target_count = 1
    /\ args.kiosk_counts.enterprise_count = 1
    /\ frame.kr4_score = R(100)

ValidWeights(w) ==
    /\ w.kr1_esol_2024 >= 0 /\ w.kr2_esol_2025 >= 0
    /\ w.kr3_win11_compatibility >= 0 /\ w.kr4_kiosk_reprovisioning >= 0
    /\ w.kr1_esol_2024 + w.kr2_esol_2025 + w.kr3_win11_compatibility
         + w.kr4_kiosk_reprovisioning = 100

\* C5: the overall score is the sum of the four KR scores weighted by
\* weight/100, and for non-negative weights summing to 100 and KR scores in
\* [0,100] it is in [0,100].
C5_WeightedOverallScore ==
    (Called /\ raised = "none") =>
        LET w == config.weights
            total == RAdd(RAdd(RMul(frame.kr1_score, R(w.kr1_esol_2024)),
                               RMul(frame.kr2_score, R(w.kr2_esol_2025))),
                          RAdd(RMul(frame.kr3_score, R(w.kr3_win11_compatibility)),
                               RMul(frame.kr4_score, R(w.kr4_kiosk_reprovisioning))))
        IN /\ frame.okr_score = RDiv(total, R(100))
           /\ scores.okr_score = Round(RDiv(total, R(100)), 1)
           /\ (/\ ValidWeights(w)
               /\ InUnitRange(frame.kr1_score) /\ InUnitRange(frame.kr2_score)
               /\ InUnitRange(frame.kr3_score) /\ InUnitRange(frame.kr4_score))
                 => (InUnitRange(frame.okr_score) /\ InUnitRange(scores.okr_score))

C5_Witness ==
    /\ Called
    /\ ValidWeights(config.weights)
    /\ frame.kr1_score = R(90)
    /\ frame.kr3_score = R(50)
    /\ frame.kr4_score = R(0)
    /\ RLt(R(0), frame.okr_score)
    /\ RLt(frame.okr_score, R(100))

StatusRank(status) ==
    IF status = "ON TRACK" THEN 2 ELSE IF status = "CAUTION" THEN 1 ELSE 0

ScoreSamples == { R(5 * i) : i \in 0..20 }

\* C6: ON TRACK iff overall >= on_track; else CAUTION iff overall >= caution;
\* else AT RISK; with on_track > caution every overall score has exactly one
\* status and a higher overall score never has a worse status.
C6_StatusClassification ==
    (Called /\ raised = "none") =>
        LET s == frame.okr_score
            on_track == R(config.thresholds.on_track_min_progress)
            caution == R(config.thresholds.caution_min_progress)
        IN /\ RLe(on_track, s) => scores.status = "ON TRACK"
           /\ (RLt(s, on_track) /\ RLe(caution, s)) => scores.status = "CAUTION"
           /\ (RLt(s, on_track) /\ RLt(s, caution)) => scores.status = "AT RISK"
           /\ scores.status \in {"ON TRACK", "CAUTION", "AT RISK"}
           /\ RLt(caution, on_track) =>
                \A c \in ScoreSamples :
                    /\ RLe(s, c) =>
                         StatusRank(Status(c, config.thresholds))
                             >= StatusRank(scores.status)
                    /\ RLe(c, s) =>
                         StatusRank(Status(c, config.thresholds))
                             <= StatusRank(scores.status)

C6_Witness ==
    /\ Called
    /\ config.thresholds.on_track_min_progress = 80
    /\ config.thresholds.caution_min_progress = 60
    /\ RLt(R(60), frame.okr_score)
    /\ scores.status = "CAUTION"

\* C7: with total_devices = 0 nothing divides by zero, both zero-target
\* percentage KRs are computed from a percentage of 0 and score 100, and the
\* overall score is a number in [0,100].
C7_ZeroDevicesDefined ==
    (Called /\ args.esol_counts.total_devices = 0) =>
        /\ raised = "none"
        /\ frame.kr1_pct = R(0) /\ frame.kr2_pct = R(0)
        /\ frame.kr1_score = R(100) /\ frame.kr2_score = R(100)
        /\ scores.kr1_score = R(100) /\ scores.kr2_score = R(100)
        /\ ~IsDivZero(frame.okr_score)
        /\ InUnitRange(frame.okr_score)
        /\ InUnitRange(scores.okr_score)

C7_Witness ==
    /\ Called
    /\ args.esol_counts.total_devices = 0
    /\ raised = "none"
    /\ frame.kr1_score = R(100)
    /\ scores.total_devices = 0

(***************************************************************************)
(* Properties of aggregate_by_dimension (checked under SpecAgg).           *)
(***************************************************************************)
Aggregated == aggPc = "returned"

RowIndexes == 1..Len(df.rows)

\* The labels a call on the current frame has to report.
ReportableLabels ==
    { df.rows[i].dims[dimension] : i \in RowIndexes } \ {NaN, "Unknown"}

\* The frame reduced to the records that carry the label v.
OnlyRecordsOf(v) ==
    LET Has(r) == r.dims[dimension] = v
    IN [columns |-> df.columns, rows |-> SelectSeq(df.rows, Has)]

\* C8: one scored row per distinct value that is neither null nor "Unknown",
\* labelled with its value and scored only from the records having that
\* value; null and "Unknown" records are excluded without raising, and the
\* result is empty when every record is excluded.
C8_OneRowPerReportableValue ==
    Aggregated =>
        /\ aggRaised = "none"
        /\ { df_results[i][dimension] : i \in 1..Len(df_results) } = ReportableLabels
        /\ Len(df_results) = Cardinality(ReportableLabels)
        /\ \A i \in 1..Len(df_results) :
              LET v == df_results[i][dimension]
                  members == { j \in RowIndexes : df.rows[j].dims[dimension] = v }
              IN /\ df_results[i].total_devices = Cardinality(members)
                 /\ df_results[i].kr1_value =
                       Cardinality({ j \in members :
                                       df.rows[j].action = esol_2024_action })
                 /\ df_results[i].kr4_value =
                       Cardinality({ j \in members :
                                       /\ df.rows[j].kiosk
                                       /\ df.rows[j].edition = "Enterprise" })
                 /\ df_results[i] =
                       ScorePartition(config, OnlyRecordsOf(v), dimension, v).row
        /\ (ReportableLabels = {} => df_results = <<>>)

C8_Witness ==
    /\ Aggregated
    /\ Len(df_results) = 1
    /\ df_results[1].total_devices = 1
    /\ \E i \in RowIndexes : df.rows[i].dims[dimension] = "Unknown"

\* Position at which a label is first met in the records.
Discovery(v) ==
    CHOOSE i \in RowIndexes :
        /\ df.rows[i].dims[dimension] = v
        /\ \A j \in 1..(i - 1) : df.rows[j].dims[dimension] # v

\* C9: the rows are ordered by overall score descending, and rows with an
\* equal overall score keep the order in which their values were first
\* discovered in the records.
C9_StableDescendingOrder ==
    Aggregated =>
        /\ IsDescending(df_results)
        /\ \A i, j \in 1..Len(df_results) :
              (i < j /\ df_results[i].okr_score = df_results[j].okr_score) =>
                  Discovery(df_results[i][dimension])
                      < Discovery(df_results[j][dimension])

\* C10: a call with a dimension that is not a column of the record set
\* raises before any partition is scored; it does not return (so never an
\* empty result) and leaves the record set, the aggregator and the last
\* returned result as they were.
C10_MissingDimensionRaises ==
    [][dimension' \notin df.columns =>
          /\ aggPc' = "raised"
          /\ aggRaised' = "ValueError"
          /\ scoredPartitions' = <<>>
          /\ df' = df
          /\ config' = config
          /\ df_results' = df_results]_vars

C10_Witness ==
    /\ aggPc = "raised"
    /\ aggRaised = "ValueError"
    /\ dimension = "SDM"
    /\ dimension \notin df.columns
    /\ Len(df_results) = 2
    /\ scoredPartitions = <<>>


(***************************************************************************)
(* datetime and timedelta values of the snapshot store,                    *)
(* historical_store.py.  A datetime is a record of its fields (naive, as   *)
(* datetime.now() gives it); all modelled datetimes lie in one non-leap    *)
(* year.  A timedelta is a pair <<seconds, microseconds>> with             *)
(* 0 <= microseconds < 10^6, the way Python normalises it.                 *)
(***************************************************************************)
DateTime(month, day, microsecond) ==
    [year |-> 2025, month |-> month, day |-> day, hour |-> 0, minute |-> 0,
     second |-> 0, microsecond |-> microsecond]

DaysBeforeMonth(month) ==
    <<0, 31, 59, 90, 120, 151, 181, 212, 243, 273, 304, 334>>[month]

\* Whole seconds from the start of the year to the datetime.
SecondOfYear(t) ==
    (DaysBeforeMonth(t.month) + t.day - 1) * 86400
        + t.hour * 3600 + t.minute * 60 + t.second

\* a - b for two datetimes.
DateTimeSub(a, b) ==
    LET s == SecondOfYear(a) - SecondOfYear(b)
        u == a.microsecond - b.microsecond
    IN IF u < 0 THEN <<s - 1, u + 1000000>> ELSE <<s, u>>

\* delta + timedelta(days=n)
PlusDays(delta, n) == <<delta[1] + n * 86400, delta[2]>>

\* The signed timedelta itself, where the code takes abs().
SignedDelta(delta) == delta

\* abs(delta)
AbsDelta(delta) ==
    IF delta[1] >= 0 THEN delta
    ELSE IF delta[2] = 0 THEN <<-delta[1], 0>>
    ELSE <<-delta[1] - 1, 1000000 - delta[2]>>

\* a.total_seconds() < b.total_seconds()
DeltaLt(a, b) == a[1] < b[1] \/ (a[1] = b[1] /\ a[2] < b[2])

\* a <= b for two datetimes.
DateTimeLe(a, b) == DateTimeSub(b, a)[1] >= 0

\* delta.days
DeltaDays(delta) == delta[1] \div 86400

\* The second the datetime falls in.
SecondOf(t) == [t EXCEPT !.microsecond = 0]

\* timestamp.isoformat(): the fields as text; the fraction is left off when
\* the microsecond is 0.
isoformat(t) ==
    IF t.microsecond = 0
    THEN <<t.year, t.month, t.day, t.hour, t.minute, t.second>>
    ELSE <<t.year, t.month, t.day, t.hour, t.minute, t.second, t.microsecond>>

\* datetime.fromisoformat(text)
fromisoformat(text) ==
    [year |-> text[1], month |-> text[2], day |-> text[3], hour |-> text[4],
     minute |-> text[5], second |-> text[6],
     microsecond |-> IF Len(text) > 6 THEN text[7] ELSE 0]

(***************************************************************************)
(* File names.  A name is the text strftime('%Y%m%d_%H%M%S') gives, as the *)
(* sequence of its character codes ('0' is 48, '_' is 95); the prefix      *)
(* okr_snapshot_ and the suffix .json are the same in every name and are   *)
(* left off.                                                               *)
(***************************************************************************)
RECURSIVE Digits(_)
Digits(n) ==
    IF n < 10 THEN <<48 + n>> ELSE Digits(n \div 10) \o <<48 + (n % 10)>>

RECURSIVE Padded(_, _)
Padded(n, width) ==
    IF width <= 1 THEN Digits(n)
    ELSE IF Len(Digits(n)) >= width THEN Digits(n)
    ELSE <<48>> \o Padded(n, width - 1)

\* A format that does not pad its fields with zeros.
UnpaddedStrftime(t) ==
    Digits(t.year) \o Digits(t.month) \o Digits(t.day) \o <<95>>
        \o Digits(t.hour) \o Digits(t.minute) \o Digits(t.second)

\* A name with the resolution of a minute: '%Y%m%d_%H%M'.
MinuteStrftime(t) ==
    Padded(t.year, 4) \o Padded(t.month, 2) \o Padded(t.day, 2) \o <<95>>
        \o Padded(t.hour, 2) \o Padded(t.minute, 2)

\* timestamp.strftime('%Y%m%d_%H%M%S')
strftime(t) ==
    Padded(t.year, 4) \o Padded(t.month, 2) \o Padded(t.day, 2) \o <<95>>
        \o Padded(t.hour, 2) \o Padded(t.minute, 2) \o Padded(t.second, 2)

\* a <= b for two texts, character by character, as sorted() compares paths
\* of one directory.
RECURSIVE TextLe(_, _)
TextLe(a, b) ==
    IF a = <<>> THEN TRUE
    ELSE IF b = <<>> THEN FALSE
    ELSE IF Head(a) < Head(b) THEN TRUE
    ELSE IF Head(a) > Head(b) THEN FALSE
    ELSE TextLe(Tail(a), Tail(b))

\* sorted(names)
RECURSIVE sorted(_)
sorted(names) ==
    IF names = {} THEN <<>>
    ELSE LET first == CHOOSE n \in names : \A m \in names : TextLe(n, m)
         IN <<first>> \o sorted(names \ {first})


(***************************************************************************)
(* Snapshot contents and their JSON form.  A Python value carries its      *)
(* type: int, float (an exact rational) or str.  A dict is a function of   *)
(* its keys; a DataFrame is its set of columns and the sequence of its     *)
(* rows, each a dict of the columns (the order of columns is not           *)
(* modelled).                                                              *)
(***************************************************************************)
PyInt(n) == [py |-> "int", v |-> n]

PyFloat(x) == [py |-> "float", v |-> x]

PyStr(text) == [py |-> "str", v |-> text]

\* json.dump of one value: an int is written without a fraction, a float
\* with one, a str in quotes; any other object goes through default=str.
JsonDump(x) ==
    IF x.py = "int" THEN [json |-> "integer", v |-> x.v]
    ELSE IF x.py = "float" THEN [json |-> "real", v |-> x.v]
    ELSE [json |-> "string", v |-> x.v]

\* json.load of one value.
JsonLoad(token) ==
    IF token.json = "integer" THEN PyInt(token.v)
    ELSE IF token.json = "real" THEN PyFloat(token.v)
    ELSE PyStr(token.v)

JsonDumpDict(d) == [k \in DOMAIN d |-> JsonDump(d[k])]

JsonLoadDict(object) == [k \in DOMAIN object |-> JsonLoad(object[k])]

JsonDumpList(records) == [i \in 1..Len(records) |-> JsonDumpDict(records[i])]

JsonLoadList(array) == [i \in 1..Len(array) |-> JsonLoadDict(array[i])]

\* pd.DataFrame() and pd.DataFrame([])
EmptyFrame == [columns |-> {}, rows |-> <<>>]

\* pd.DataFrame(records)
DataFrameOf(records) ==
    [columns |-> UNION { DOMAIN records[i] : i \in 1..Len(records) },
     rows |-> records]

\* Records kept only for a table of two or more rows.
ManyRowRecords(table) ==
    IF Len(table.rows) > 1 THEN table.rows ELSE <<>>

\* table.to_dict('records') if len(table) > 0 else []
Records(table) ==
    IF Len(table.rows) > 0 THEN table.rows ELSE <<>>

\* The snapshot dictionary of save_snapshot, lines 47-54.
SnapshotOf(overall_scores, country_scores, sdm_scores, site_scores, timestamp) ==
    [timestamp |-> PyStr(isoformat(timestamp)),
     overall_scores |-> overall_scores,
     country_scores |-> Records(country_scores),
     sdm_scores |-> Records(sdm_scores),
     site_scores |-> Records(site_scores)]

\* json.dump(snapshot, f, indent=2, default=str)
JsonDumpSnapshot(snapshot) ==
    [timestamp |-> JsonDump(snapshot.timestamp),
     overall_scores |-> JsonDumpDict(snapshot.overall_scores),
     country_scores |-> JsonDumpList(snapshot.country_scores),
     sdm_scores |-> JsonDumpList(snapshot.sdm_scores),
     site_scores |-> JsonDumpList(snapshot.site_scores)]

\* json.load(f)
JsonLoadSnapshot(text) ==
    [timestamp |-> JsonLoad(text.timestamp),
     overall_scores |-> JsonLoadDict(text.overall_scores),
     country_scores |-> JsonLoadList(text.country_scores),
     sdm_scores |-> JsonLoadList(text.sdm_scores),
     site_scores |-> JsonLoadList(text.site_scores)]

\* HistoricalDataStore._load_snapshot: a file that is still being written
\* does not hold a whole JSON document, and json.load raises.
_load_snapshot(file) ==
    IF ~file.complete
    THEN [raised |-> "JSONDecodeError", value |-> None]
    ELSE LET snapshot == JsonLoadSnapshot(file.text)
         IN [raised |-> "none",
             value |->
                 [timestamp |-> snapshot.timestamp,
                  overall_scores |-> snapshot.overall_scores,
                  country_scores |-> snapshot.country_scores,
                  sdm_scores |-> snapshot.sdm_scores,
                  site_scores |-> snapshot.site_scores,
                  country_scores_df |-> DataFrameOf(snapshot.country_scores),
                  sdm_scores_df |-> DataFrameOf(snapshot.sdm_scores),
                  site_scores_df |-> DataFrameOf(snapshot.site_scores)]]

\* HistoricalDataStore._list_snapshot_files
_list_snapshot_files(dir) == sorted(DOMAIN dir)


(***************************************************************************)
(* HistoricalDataStore, historical_store.py.  The history directory is a   *)
(* function from file names to files; a file is its JSON text and whether  *)
(* the writer has closed it.  Every operation gives what it raises and     *)
(* what it returns.                                                        *)
(***************************************************************************)
Returns(value) == [raised |-> "none", value |-> value]

\* The file save_snapshot leaves behind, lines 47-62.
SnapshotFile(call) ==
    [complete |-> TRUE,
     text |-> JsonDumpSnapshot(
                  SnapshotOf(call.overall_scores, call.country_scores,
                             call.sdm_scores, call.site_scores, call.timestamp))]

\* open(filepath, 'w'): the file exists and is empty or holds the start of
\* the text until the writer closes it.
OpenedFile(call) == [SnapshotFile(call) EXCEPT !.complete = FALSE]

\* A save that leaves an existing file of the same name as it is.
KeepFirstSave(dir, call) ==
    dir @@ (strftime(call.timestamp) :> SnapshotFile(call))

\* A save that leaves only the new file in the directory.
SaveAlone(dir, call) ==
    (strftime(call.timestamp) :> SnapshotFile(call))

\* HistoricalDataStore.save_snapshot
save_snapshot(dir, call) ==
    (strftime(call.timestamp) :> SnapshotFile(call)) @@ dir

\* The snapshots of the named files, loaded in order; the first file that
\* fails to load ends the call.
LoadEach(dir, names) ==
    LET loaded == [i \in 1..Len(names) |-> _load_snapshot(dir[names[i]])]
    IN IF \E i \in 1..Len(names) : loaded[i].raised # "none"
       THEN [raised |-> "JSONDecodeError", value |-> None]
       ELSE Returns([i \in 1..Len(names) |-> loaded[i].value])

\* HistoricalDataStore.get_latest_snapshot
get_latest_snapshot(dir) ==
    LET snapshots == _list_snapshot_files(dir)
    IN IF snapshots = <<>> THEN Returns(None)
       ELSE _load_snapshot(dir[snapshots[Len(snapshots)]])

\* The loop of get_previous_snapshot, lines 98-105; min_diff is <<>> while
\* it is None.
RECURSIVE ClosestTo(_, _, _, _, _)
ClosestTo(snapshots, now, days_back, best_match, min_diff) ==
    IF snapshots = <<>> THEN best_match
    ELSE LET snapshot == Head(snapshots)
             snapshot_time == fromisoformat(snapshot.timestamp.v)
             diff == AbsDelta(PlusDays(DateTimeSub(snapshot_time, now), days_back))
         IN IF min_diff = <<>> \/ DeltaLt(diff, min_diff)
            THEN ClosestTo(Tail(snapshots), now, days_back, snapshot, diff)
            ELSE ClosestTo(Tail(snapshots), now, days_back, best_match, min_diff)

\* HistoricalDataStore.get_previous_snapshot; now is datetime.now().
get_previous_snapshot(dir, days_back, now) ==
    LET snapshots == _list_snapshot_files(dir)
        loaded == LoadEach(dir, snapshots)
    IN IF snapshots = <<>> THEN Returns(None)
       ELSE IF loaded.raised # "none" THEN loaded
       ELSE Returns(ClosestTo(loaded.value, now, days_back, None, <<>>))

\* start_date < snapshot_time < end_date
StrictlyWithin(start_date, snapshot_time, end_date) ==
    /\ ~DateTimeLe(snapshot_time, start_date)
    /\ ~DateTimeLe(end_date, snapshot_time)

\* start_date <= snapshot_time <= end_date
Within(start_date, snapshot_time, end_date) ==
    DateTimeLe(start_date, snapshot_time) /\ DateTimeLe(snapshot_time, end_date)

\* HistoricalDataStore.get_snapshots_in_range; end_date is datetime.now()
\* when the caller gives none.
get_snapshots_in_range(dir, start_date, end_date) ==
    LET loaded == LoadEach(dir, _list_snapshot_files(dir))
        InRange(snapshot) ==
            Within(start_date, fromisoformat(snapshot.timestamp.v), end_date)
    IN IF loaded.raised # "none" THEN loaded
       ELSE Returns(SelectSeq(loaded.value, InRange))

\* HistoricalDataStore.get_all_snapshots
get_all_snapshots(dir) == LoadEach(dir, _list_snapshot_files(dir))

\* HistoricalDataStore.count_snapshots
count_snapshots(dir) == Returns(Len(_list_snapshot_files(dir)))


(***************************************************************************)
(* Store specification: a new history directory, and calls of the store's  *)
(* operations by one analysis process at a time.  saved lists the          *)
(* save_snapshot calls made so far; storeOp is the last call and its       *)
(* outcome.                                                                *)
(***************************************************************************)
\* Timestamps handed to save_snapshot, or taken from datetime.now() when
\* none is handed: four dates on both sides of a change in the number of
\* digits of the month and of the day, and two instants of one second.
Timestamps ==
    { DateTime(9, 3, 0), DateTime(9, 10, 0), DateTime(10, 3, 0),
      DateTime(10, 3, 500000), DateTime(10, 10, 0) }

\* Values of datetime.now() at a call.
Nows == { DateTime(10, 10, 0), DateTime(10, 17, 0) }

DaysBack == {0, 7}

RangeStarts == { DateTime(9, 10, 0), DateTime(10, 3, 0) }

\* end_date=None stands for now.
RangeEnds == { DateTime(9, 3, 0), DateTime(10, 3, 0) } \cup Nows

CountryRow(label, okr_score, total_devices) ==
    [Country |-> PyStr(label), okr_score |-> PyFloat(okr_score),
     total_devices |-> PyInt(total_devices)]

SdmRow(label, okr_score) ==
    [SDM |-> PyStr(label), okr_score |-> PyFloat(okr_score)]

\* What one analysis run hands to save_snapshot: the overall scores and the
\* three tables, a table without rows being pd.DataFrame().
Payloads ==
    { [overall_scores |-> [okr_score |-> PyFloat(Rat(171, 2)),
                           kr1_value |-> PyInt(10),
                           status |-> PyStr("ON TRACK")],
       country_scores |-> DataFrameOf(<<CountryRow("UK", R(80), 3),
                                        CountryRow("FR", Rat(151, 2), 2)>>),
       sdm_scores |-> DataFrameOf(<<SdmRow("Doe", R(85))>>),
       site_scores |-> EmptyFrame],
      [overall_scores |-> [okr_score |-> PyFloat(R(60)),
                           kr1_value |-> PyInt(0),
                           status |-> PyStr("CAUTION")],
       country_scores |-> DataFrameOf(<<CountryRow("UK", R(60), 1)>>),
       sdm_scores |-> EmptyFrame,
       site_scores |-> EmptyFrame] }

\* The arguments of one save_snapshot call.
SaveCall(payload, timestamp) ==
    [overall_scores |-> payload.overall_scores,
     country_scores |-> payload.country_scores,
     sdm_scores |-> payload.sdm_scores,
     site_scores |-> payload.site_scores,
     timestamp |-> timestamp]

InitStore ==
    /\ config = DefaultConfig
    /\ ScoreIdle
    /\ AggIdle
    /\ StoreIdle
    /\ TrendIdle
    /\ RunIdle
    /\ CalcIdle

NotStore ==
    UNCHANGED <<config, scoreVars, aggVars, trendVars, runVars, calcVars>>

SaveSnapshot(payload, timestamp) ==
    LET call == SaveCall(payload, timestamp)
    IN /\ writing = None
       /\ Len(saved) < MaxSaves
       /\ files' = save_snapshot(files, call)
       /\ saved' = Append(saved, call)
       /\ storeOp' = [op |-> "save_snapshot", call |-> call, raised |-> "none",
                      value |-> strftime(call.timestamp)]
       /\ UNCHANGED writing
       /\ NotStore

GetLatestSnapshot ==
    LET outcome == get_latest_snapshot(files)
    IN /\ storeOp' = [op |-> "get_latest_snapshot", raised |-> outcome.raised,
                      value |-> outcome.value]
       /\ UNCHANGED <<files, saved, writing>>
       /\ NotStore

GetPreviousSnapshot(days_back, now) ==
    LET outcome == get_previous_snapshot(files, days_back, now)
    IN /\ storeOp' = [op |-> "get_previous_snapshot", days_back |-> days_back,
                      now |-> now, raised |-> outcome.raised,
                      value |-> outcome.value]
       /\ UNCHANGED <<files, saved, writing>>
       /\ NotStore

GetSnapshotsInRange(start_date, end_date) ==
    LET outcome == get_snapshots_in_range(files, start_date, end_date)
    IN /\ storeOp' = [op |-> "get_snapshots_in_range", start_date |-> start_date,
                      end_date |-> end_date,
                      raised |-> outcome.raised, value |-> outcome.value]
       /\ UNCHANGED <<files, saved, writing>>
       /\ NotStore

GetAllSnapshots ==
    LET outcome == get_all_snapshots(files)
    IN /\ storeOp' = [op |-> "get_all_snapshots", raised |-> outcome.raised,
                      value |-> outcome.value]
       /\ UNCHANGED <<files, saved, writing>>
       /\ NotStore

CountSnapshots ==
    LET outcome == count_snapshots(files)
    IN /\ storeOp' = [op |-> "count_snapshots", raised |-> outcome.raised,
                      value |-> outcome.value]
       /\ UNCHANGED <<files, saved, writing>>
       /\ NotStore

Reads ==
    \/ GetLatestSnapshot
    \/ \E days_back \in DaysBack, now \in Nows :
           GetPreviousSnapshot(days_back, now)
    \/ \E start_date \in RangeStarts, end_date \in RangeEnds :
           GetSnapshotsInRange(start_date, end_date)
    \/ GetAllSnapshots
    \/ CountSnapshots

NextStore ==
    \/ \E payload \in Payloads, timestamp \in Timestamps :
           SaveSnapshot(payload, timestamp)
    \/ Reads

SpecStore == InitStore /\ [][NextStore]_vars


(***************************************************************************)
(* Shared-store specification: one process is inside save_snapshot, between *)
(* open(filepath, 'w') and the end of the with block, while another        *)
(* process reads the same history directory.                               *)
(***************************************************************************)
\* with open(filepath, 'w') as f: the file is created or truncated.
OpenSnapshotFile(payload, timestamp) ==
    LET call == SaveCall(payload, timestamp)
    IN /\ writing = None
       /\ Len(saved) < MaxSaves
       /\ files' = (strftime(call.timestamp) :> OpenedFile(call)) @@ files
       /\ writing' = call
       /\ UNCHANGED <<saved, storeOp>>
       /\ NotStore

\* json.dump has written the whole text and the with block closes the file.
CloseSnapshotFile ==
    /\ writing # None
    /\ files' = save_snapshot(files, writing)
    /\ saved' = Append(saved, writing)
    /\ writing' = None
    /\ UNCHANGED storeOp
    /\ NotStore

NextSharedStore ==
    \/ \E payload \in Payloads, timestamp \in Timestamps :
           OpenSnapshotFile(payload, timestamp)
    \/ CloseSnapshotFile
    \/ Reads

SpecSharedStore == InitStore /\ [][NextSharedStore]_vars

(***************************************************************************)
(* Properties of the snapshot store (checked under SpecStore, C17 under    *)
(* SpecSharedStore).                                                       *)
(***************************************************************************)
\* Position of a datetime on the time line, in half seconds (every modelled
\* microsecond field is 0 or 500000).
HalfSeconds(t) == SecondOfYear(t) * 2 + (t.microsecond \div 500000)

\* The snapshots the directory holds, as loading gives them.
StoredSnapshots == { _load_snapshot(files[n]).value : n \in DOMAIN files }

TimeOf(snapshot) == fromisoformat(snapshot.timestamp.v)

\* Distance of a snapshot from now - days_back days, in half seconds.
Apart(snapshot, now, days_back) ==
    Abs(HalfSeconds(TimeOf(snapshot)) - HalfSeconds(now) + days_back * 172800)

\* C11: get_previous_snapshot(days_back) returns None exactly when the store
\* is empty; otherwise it returns a stored snapshot whose timestamp is at
\* least as close to now - days_back days as that of every stored snapshot,
\* however far away it is.
C11_NearestPreviousSnapshot ==
    storeOp.op = "get_previous_snapshot" =>
        /\ storeOp.raised = "none"
        /\ (storeOp.value = None) <=> (DOMAIN files = {})
        /\ storeOp.value # None =>
             /\ storeOp.value \in StoredSnapshots
             /\ \A other \in StoredSnapshots :
                    Apart(storeOp.value, storeOp.now, storeOp.days_back)
                        <= Apart(other, storeOp.now, storeOp.days_back)

\* The nearer of two stored snapshots is returned although it is more than
\* seven days from the target.
C11_Witness ==
    /\ storeOp.op = "get_previous_snapshot"
    /\ Cardinality(DOMAIN files) = 2
    /\ storeOp.value # None
    /\ storeOp.days_back = 7
    /\ Apart(storeOp.value, storeOp.now, storeOp.days_back) > 7 * 172800
    /\ \E other \in StoredSnapshots :
           Apart(other, storeOp.now, storeOp.days_back)
               > Apart(storeOp.value, storeOp.now, storeOp.days_back)

\* C12: the order of the file names is the order in time of the seconds of
\* the stored snapshots, whatever the order of the saves; get_all_snapshots
\* returns every stored snapshot in non-decreasing timestamp order and
\* get_latest_snapshot the one with the greatest timestamp, None for an
\* empty store.
C12_NamesOrderedAsTimestamps ==
    /\ \A n, m \in DOMAIN files :
           TextLe(n, m) <=>
               SecondOfYear(TimeOf(_load_snapshot(files[n]).value))
                   <= SecondOfYear(TimeOf(_load_snapshot(files[m]).value))
    /\ storeOp.op = "get_all_snapshots" =>
           /\ storeOp.raised = "none"
           /\ { storeOp.value[i] : i \in 1..Len(storeOp.value) } = StoredSnapshots
           /\ \A i \in 1..(Len(storeOp.value) - 1) :
                  HalfSeconds(TimeOf(storeOp.value[i]))
                      <= HalfSeconds(TimeOf(storeOp.value[i + 1]))
    /\ storeOp.op = "get_latest_snapshot" =>
           /\ storeOp.raised = "none"
           /\ (storeOp.value = None) <=> (DOMAIN files = {})
           /\ storeOp.value # None =>
                /\ storeOp.value \in StoredSnapshots
                /\ \A other \in StoredSnapshots :
                       HalfSeconds(TimeOf(other))
                           <= HalfSeconds(TimeOf(storeOp.value))

\* The latest snapshot is the one saved first: the second save carried an
\* earlier timestamp, of a month written with fewer digits.
C12_Witness ==
    /\ storeOp.op = "get_latest_snapshot"
    /\ Len(saved) = 2
    /\ saved[1].timestamp.month = 10
    /\ saved[2].timestamp.month = 9
    /\ storeOp.value # None
    /\ TimeOf(storeOp.value) = saved[1].timestamp

\* C13: get_snapshots_in_range(start, end) returns exactly the stored
\* snapshots with start <= timestamp <= end, both bounds included, in
\* chronological order, and an empty list when there is none.
C13_RangeInclusiveChronological ==
    storeOp.op = "get_snapshots_in_range" =>
        LET got == storeOp.value
            InRange(snapshot) ==
                /\ HalfSeconds(storeOp.start_date) <= HalfSeconds(TimeOf(snapshot))
                /\ HalfSeconds(TimeOf(snapshot)) <= HalfSeconds(storeOp.end_date)
        IN /\ storeOp.raised = "none"
           /\ { got[i] : i \in 1..Len(got) }
                  = { snapshot \in StoredSnapshots : InRange(snapshot) }
           /\ \A i \in 1..(Len(got) - 1) :
                  HalfSeconds(TimeOf(got[i])) < HalfSeconds(TimeOf(got[i + 1]))

\* Two snapshots are returned, one at the start and one at the end of the
\* range.
C13_Witness ==
    /\ storeOp.op = "get_snapshots_in_range"
    /\ Len(storeOp.value) = 2
    /\ TimeOf(storeOp.value[1]) = storeOp.start_date
    /\ TimeOf(storeOp.value[2]) = storeOp.end_date

\* The seconds of the timestamps saved so far.
SavedSeconds == { SecondOf(saved[i].timestamp) : i \in 1..Len(saved) }

\* No later save fell in the second of the i-th save.
NotReplaced(i) ==
    \A j \in (i + 1)..Len(saved) :
        SecondOf(saved[j].timestamp) # SecondOf(saved[i].timestamp)

SameTable(loaded, table) ==
    /\ loaded.rows = table.rows
    /\ loaded.columns = table.columns

\* The loaded snapshot has the timestamp and the content of the save call.
SameContent(snapshot, call) ==
    /\ TimeOf(snapshot) = call.timestamp
    /\ snapshot.overall_scores = call.overall_scores
    /\ SameTable(snapshot.country_scores_df, call.country_scores)
    /\ SameTable(snapshot.sdm_scores_df, call.sdm_scores)
    /\ SameTable(snapshot.site_scores_df, call.site_scores)

\* The snapshots get_all_snapshots returns from the directory as it is.
AllReturned ==
    LET all == get_all_snapshots(files).value
    IN { all[i] : i \in 1..Len(all) }

\* C14: count_snapshots is the number of distinct seconds among the
\* timestamps saved so far: a save in a new second adds one, a save in a
\* second already used replaces the stored snapshot (the last write wins)
\* and leaves the count as it was.
C14_CountIsDistinctSeconds ==
    /\ count_snapshots(files).value = Cardinality(SavedSeconds)
    /\ storeOp.op = "count_snapshots" =>
           /\ storeOp.raised = "none"
           /\ storeOp.value = Cardinality(SavedSeconds)
    /\ \A i, j \in 1..Len(saved) :
           (/\ i < j
            /\ SecondOf(saved[i].timestamp) = SecondOf(saved[j].timestamp)
            /\ NotReplaced(j))
               => /\ \E snapshot \in AllReturned : SameContent(snapshot, saved[j])
                  /\ saved[i] # saved[j]
                         => ~\E snapshot \in AllReturned :
                                 SameContent(snapshot, saved[i])

\* Two different saves fell in one second and the count is 1.
C14_Witness ==
    /\ storeOp.op = "count_snapshots"
    /\ storeOp.value = 1
    /\ Len(saved) = 2
    /\ saved[1] # saved[2]

\* C15 as stated: every snapshot that was saved is still returned by
\* get_all_snapshots with the content it was saved with.
C15_EverySavedSnapshotKept ==
    \A i \in 1..Len(saved) :
        \E snapshot \in AllReturned : SameContent(snapshot, saved[i])

ReadOps ==
    {"get_latest_snapshot", "get_previous_snapshot", "get_snapshots_in_range",
     "get_all_snapshots", "count_snapshots"}

\* C15, amended: every saved snapshot is still returned by get_all_snapshots
\* with the content it was saved with unless a later save fell in the same
\* second, which replaces it whole; and no read operation (latest, previous,
\* range, all, count) changes the store.
C15_KeptUntilSameSecondSave ==
    /\ [](\A i \in 1..Len(saved) :
              NotReplaced(i)
                  => \E snapshot \in AllReturned : SameContent(snapshot, saved[i]))
    /\ [][storeOp'.op \in ReadOps => files' = files /\ saved' = saved]_vars

\* Two snapshots of different seconds were saved and then all were read.
C15_Witness ==
    /\ Len(saved) = 2
    /\ NotReplaced(1)
    /\ storeOp.op = "get_all_snapshots"
    /\ Len(storeOp.value) = 2

C17_ReadsUnaffectedBySave ==
    storeOp.op \in ReadOps => storeOp.raised = "none"


(***************************************************************************)
(* TrendAnalyzer, trend_analyzer.py.  Scores are exact rationals; the      *)
(* arrows are written "UP", "DOWN" and "FLAT".  A score table is the       *)
(* sequence of its rows, each row a dict with the dimension label and the  *)
(* okr_score.                                                              *)
(***************************************************************************)
\* The default of the threshold parameter of _get_trend_arrow.
DefaultThreshold == Rat(1, 2)

\* An arrow rule whose comparisons include the threshold itself.
InclusiveTrendArrow(delta, threshold) ==
    IF RLe(threshold, delta) THEN "UP"
    ELSE IF RLe(delta, RSub(R(0), threshold)) THEN "DOWN"
    ELSE "FLAT"

\* TrendAnalyzer._get_trend_arrow
_get_trend_arrow(delta, threshold) ==
    IF RLt(threshold, delta) THEN "UP"
    ELSE IF RLt(delta, RSub(R(0), threshold)) THEN "DOWN"
    ELSE "FLAT"

\* The result of lines 44-57.
ColdStart ==
    [okr_score_delta |-> R(0), okr_score_trend |-> "FLAT",
     kr1_delta |-> R(0), kr1_trend |-> "FLAT",
     kr2_delta |-> R(0), kr2_trend |-> "FLAT",
     kr3_delta |-> R(0), kr3_trend |-> "FLAT",
     kr4_delta |-> R(0), kr4_trend |-> "FLAT",
     has_history |-> FALSE, days_since_previous |-> 0]

\* Lines 59-84, for a previous that is a dict.
TrendsAgainst(current, previous) ==
    LET okr_delta == RSub(current.okr_score, previous.okr_score)
        kr1_delta == RSub(current.kr1_score, previous.kr1_score)
        kr2_delta == RSub(current.kr2_score, previous.kr2_score)
        kr3_delta == RSub(current.kr3_score, previous.kr3_score)
        kr4_delta == RSub(current.kr4_score, previous.kr4_score)
        current_time == fromisoformat(current.timestamp)
        previous_time == fromisoformat(previous.timestamp)
        days_diff == DeltaDays(DateTimeSub(current_time, previous_time))
    IN [okr_score_delta |-> okr_delta,
        okr_score_trend |-> _get_trend_arrow(okr_delta, DefaultThreshold),
        kr1_delta |-> kr1_delta,
        kr1_trend |-> _get_trend_arrow(kr1_delta, DefaultThreshold),
        kr2_delta |-> kr2_delta,
        kr2_trend |-> _get_trend_arrow(kr2_delta, DefaultThreshold),
        kr3_delta |-> kr3_delta,
        kr3_trend |-> _get_trend_arrow(kr3_delta, DefaultThreshold),
        kr4_delta |-> kr4_delta,
        kr4_trend |-> _get_trend_arrow(kr4_delta, DefaultThreshold),
        has_history |-> TRUE, days_since_previous |-> days_diff]

\* A version without the test for None: subscripting None raises.
UnguardedOverallTrends(current, previous) ==
    IF previous = None THEN [raised |-> "TypeError", value |-> None]
    ELSE Returns(TrendsAgainst(current, previous))

\* TrendAnalyzer.calculate_overall_trends
calculate_overall_trends(current, previous) ==
    IF previous = None THEN Returns(ColdStart)
    ELSE Returns(TrendsAgainst(current, previous))

\* The okr_score_prev of a row without a match in the previous table.
FloatNaN == <<>>

\* The rows of the right table with the label, in order.
Matches(label, right, on) ==
    LET HasLabel(row) == row[on] = label IN SelectSeq(right, HasLabel)

\* merge(how='inner'): rows of the left table without a match are dropped.
RECURSIVE InnerMerge(_, _, _)
InnerMerge(left, right, on) ==
    IF left = <<>> THEN <<>>
    ELSE LET row == Head(left)
             found == Matches(row[on], right, on)
         IN [i \in 1..Len(found) |->
                 row @@ [okr_score_prev |-> found[i].okr_score]]
                \o InnerMerge(Tail(left), right, on)

\* current_df.merge(previous_df[[on, 'okr_score']], on=on, how='left',
\* suffixes=('', '_prev')): the rows of the left table in their order, each
\* once per matching row of the right table, or once with a missing
\* okr_score_prev when there is none.
RECURSIVE LeftMerge(_, _, _)
LeftMerge(left, right, on) ==
    IF left = <<>> THEN <<>>
    ELSE LET row == Head(left)
             found == Matches(row[on], right, on)
         IN (IF found = <<>> THEN <<row @@ [okr_score_prev |-> FloatNaN]>>
             ELSE [i \in 1..Len(found) |->
                       row @@ [okr_score_prev |-> found[i].okr_score]])
                \o LeftMerge(Tail(left), right, on)

\* Lines 113-126: the delta, the arrow, and the previous score dropped.
WithTrend(row) ==
    LET delta == IF row.okr_score_prev # FloatNaN
                 THEN RSub(row.okr_score, row.okr_score_prev)
                 ELSE R(0)
    IN [k \in (DOMAIN row) \ {"okr_score_prev"} |-> row[k]]
           @@ [okr_score_delta |-> delta,
               okr_score_trend |-> _get_trend_arrow(delta, DefaultThreshold)]

\* Lines 98-103: no history, the trend columns are filled with 0.0 and '→'.
WithoutTrend(row) ==
    row @@ [okr_score_delta |-> R(0), okr_score_trend |-> "FLAT"]

\* The body shared by calculate_country_trends and calculate_sdm_trends.
DimensionTrends(current_df, previous_df, on) ==
    IF Len(previous_df) = 0
    THEN [i \in 1..Len(current_df) |-> WithoutTrend(current_df[i])]
    ELSE LET merged == LeftMerge(current_df, previous_df, on)
         IN [i \in 1..Len(merged) |-> WithTrend(merged[i])]

\* TrendAnalyzer.calculate_country_trends
calculate_country_trends(current_df, previous_df) ==
    Returns(DimensionTrends(current_df, previous_df, "Country"))

\* TrendAnalyzer.calculate_sdm_trends
calculate_sdm_trends(current_df, previous_df) ==
    Returns(DimensionTrends(current_df, previous_df, "SDM"))


(***************************************************************************)
(* Trend specification: calls of the TrendAnalyzer's comparisons on        *)
(* overall scores and on score tables, one call in a run; trendOp is the   *)
(* call and its outcome.                                                   *)
(***************************************************************************)
\* The overall_scores of the current run, with the timestamp main adds.
CurrentOverallScores ==
    { [okr_score |-> Rat(161, 2), kr1_score |-> R(90), kr2_score |-> R(80),
       kr3_score |-> R(85), kr4_score |-> R(100),
       timestamp |-> isoformat(DateTime(10, 10, 0))],
      [okr_score |-> R(60), kr1_score |-> R(0), kr2_score |-> R(100),
       kr3_score |-> Rat(171, 2), kr4_score |-> R(0),
       timestamp |-> isoformat(DateTime(10, 10, 500000))] }

\* The overall_scores of a stored snapshot.
PreviousOverallScores ==
    { [okr_score |-> okr, kr1_score |-> kr1, kr2_score |-> kr2,
       kr3_score |-> kr3, kr4_score |-> kr4, timestamp |-> isoformat(t)] :
        okr \in {R(80), Rat(161, 2), R(81), R(60)},
        kr1 \in {R(90), Rat(179, 2), R(89)},
        kr2 \in {R(80), R(100)},
        kr3 \in {R(85), Rat(171, 2)},
        kr4 \in {R(0), R(100)},
        t \in {DateTime(9, 10, 0), DateTime(10, 3, 500000)} }

TrendLabels == {"UK", "FR", "DE"}

TrendScores == {R(80), Rat(161, 2), R(82)}

ScoreRow(on, label, okr_score) == (on :> label) @@ [okr_score |-> okr_score]

\* Score tables of at most MaxTrendRows rows, one row per label.
ScoreTables(on, shortest) ==
    { table \in UNION { [1..n -> { ScoreRow(on, label, okr_score) :
                                      label \in TrendLabels,
                                      okr_score \in TrendScores }] :
                         n \in shortest..MaxTrendRows } :
        \A i, j \in 1..Len(table) : table[i][on] = table[j][on] => i = j }

InitTrend ==
    /\ config = DefaultConfig
    /\ ScoreIdle
    /\ AggIdle
    /\ StoreIdle
    /\ TrendIdle
    /\ RunIdle
    /\ CalcIdle

NotTrend ==
    UNCHANGED <<config, scoreVars, aggVars, storeVars, runVars, calcVars>>

CalculateOverallTrends(current, previous) ==
    LET outcome == calculate_overall_trends(current, previous)
    IN /\ trendOp = NoCall
       /\ trendOp' = [op |-> "calculate_overall_trends", current |-> current,
                      previous |-> previous, raised |-> outcome.raised,
                      value |-> outcome.value]
       /\ NotTrend

\* main calls the table comparisons only for a current table that has rows.
CalculateCountryTrends(current_df, previous_df) ==
    LET outcome == calculate_country_trends(current_df, previous_df)
    IN /\ trendOp = NoCall
       /\ trendOp' = [op |-> "calculate_country_trends", on |-> "Country",
                      current |-> current_df, previous |-> previous_df,
                      raised |-> outcome.raised, value |-> outcome.value]
       /\ NotTrend

CalculateSdmTrends(current_df, previous_df) ==
    LET outcome == calculate_sdm_trends(current_df, previous_df)
    IN /\ trendOp = NoCall
       /\ trendOp' = [op |-> "calculate_sdm_trends", on |-> "SDM",
                      current |-> current_df, previous |-> previous_df,
                      raised |-> outcome.raised, value |-> outcome.value]
       /\ NotTrend

NextTrend ==
    \/ \E current \in CurrentOverallScores,
          previous \in PreviousOverallScores \cup {None} :
           CalculateOverallTrends(current, previous)
    \/ \E current_df \in ScoreTables("Country", 1),
          previous_df \in ScoreTables("Country", 0) :
           CalculateCountryTrends(current_df, previous_df)
    \/ \E current_df \in ScoreTables("SDM", 1),
          previous_df \in ScoreTables("SDM", 0) :
           CalculateSdmTrends(current_df, previous_df)

SpecTrend == InitTrend /\ [][NextTrend]_vars


(***************************************************************************)
(* Properties of the trend rules (checked under SpecTrend).                *)
(***************************************************************************)
OverallCall == trendOp.op = "calculate_overall_trends"

TableCall == trendOp.op \in {"calculate_country_trends", "calculate_sdm_trends"}

\* C18: calculate_overall_trends(current, None) is the cold-start result
\* for every current: the five deltas are 0, the five directions FLAT,
\* has_history is false, days_since_previous is 0, and nothing is raised.
C18_ColdStartTrends ==
    (OverallCall /\ trendOp.previous = None) =>
        /\ trendOp.raised = "none"
        /\ trendOp.value.okr_score_delta = R(0)
        /\ trendOp.value.kr1_delta = R(0)
        /\ trendOp.value.kr2_delta = R(0)
        /\ trendOp.value.kr3_delta = R(0)
        /\ trendOp.value.kr4_delta = R(0)
        /\ trendOp.value.okr_score_trend = "FLAT"
        /\ trendOp.value.kr1_trend = "FLAT"
        /\ trendOp.value.kr2_trend = "FLAT"
        /\ trendOp.value.kr3_trend = "FLAT"
        /\ trendOp.value.kr4_trend = "FLAT"
        /\ trendOp.value.has_history = FALSE
        /\ trendOp.value.days_since_previous = 0

\* The comparison was made without a previous result.
C18_Witness ==
    /\ OverallCall
    /\ trendOp.previous = None
    /\ trendOp.raised = "none"
    /\ trendOp.current.okr_score = R(60)

\* The stated arrow rule for a delta n/d against a threshold tn/td.
Direction(delta, threshold) ==
    IF delta[1] * threshold[2] > threshold[1] * delta[2] THEN "UP"
    ELSE IF delta[1] * threshold[2] < -(threshold[1] * delta[2]) THEN "DOWN"
    ELSE "FLAT"

\* delta = current - previous and the direction follows the rule with the
\* default threshold.
DeltaAndDirection(delta, trend, current, previous) ==
    /\ RAdd(delta, previous) = current
    /\ trend = Direction(delta, <<1, 2>>)

DeltaSamples == { Rat(i, 4) : i \in -5..5 }

\* C19: with a previous result, the overall score and each KR score get
\* delta = current - previous and direction UP for delta > threshold, DOWN
\* for delta < -threshold, FLAT otherwise (so |delta| = threshold is FLAT);
\* the threshold is a parameter of the arrow rule, 0.5 by default, and the
\* table trends use the same rule.
C19_DeltaAndDirection ==
    /\ (OverallCall /\ trendOp.previous # None) =>
           LET got == trendOp.value
               cur == trendOp.current
               prev == trendOp.previous
           IN /\ trendOp.raised = "none"
              /\ DeltaAndDirection(got.okr_score_delta, got.okr_score_trend,
                                   cur.okr_score, prev.okr_score)
              /\ DeltaAndDirection(got.kr1_delta, got.kr1_trend,
                                   cur.kr1_score, prev.kr1_score)
              /\ DeltaAndDirection(got.kr2_delta, got.kr2_trend,
                                   cur.kr2_score, prev.kr2_score)
              /\ DeltaAndDirection(got.kr3_delta, got.kr3_trend,
                                   cur.kr3_score, prev.kr3_score)
              /\ DeltaAndDirection(got.kr4_delta, got.kr4_trend,
                                   cur.kr4_score, prev.kr4_score)
              /\ got.has_history
    /\ TableCall =>
           \A i \in 1..Len(trendOp.value) :
               trendOp.value[i].okr_score_trend
                   = Direction(trendOp.value[i].okr_score_delta, <<1, 2>>)
    /\ DefaultThreshold = <<1, 2>>
    /\ \A delta \in DeltaSamples, threshold \in {R(0), Rat(1, 2), R(1)} :
           _get_trend_arrow(delta, threshold) = Direction(delta, threshold)

\* One comparison with a delta of exactly 0.5 and one of exactly -0.5, both
\* FLAT, a delta above the threshold and one below its negative.
C19_Witness ==
    /\ OverallCall
    /\ trendOp.previous # None
    /\ trendOp.value.okr_score_delta = Rat(1, 2)
    /\ trendOp.value.okr_score_trend = "FLAT"
    /\ trendOp.value.kr3_delta = Rat(-1, 2)
    /\ trendOp.value.kr3_trend = "FLAT"
    /\ trendOp.value.kr1_trend = "UP"
    /\ trendOp.value.kr2_trend = "DOWN"

\* C20: the table trends are a left join of the current table with the
\* previous one on the label: the result has the rows of the current table
\* in their order; a row whose label is in the previous table gets
\* delta = current okr_score - previous okr_score and the rule's direction;
\* a row whose label is not, and every row when the previous table is
\* empty, gets delta 0 and FLAT; rows only in the previous table are absent.
C20_LeftJoinOnLabel ==
    TableCall =>
        LET on == trendOp.on
            cur == trendOp.current
            prev == trendOp.previous
            got == trendOp.value
        IN /\ trendOp.raised = "none"
           /\ Len(got) = Len(cur)
           /\ \A i \in 1..Len(cur) :
                  /\ DOMAIN got[i]
                         = DOMAIN cur[i] \cup {"okr_score_delta", "okr_score_trend"}
                  /\ \A k \in DOMAIN cur[i] : got[i][k] = cur[i][k]
                  /\ IF \E j \in 1..Len(prev) : prev[j][on] = cur[i][on]
                     THEN \E j \in 1..Len(prev) :
                              /\ prev[j][on] = cur[i][on]
                              /\ DeltaAndDirection(got[i].okr_score_delta,
                                                   got[i].okr_score_trend,
                                                   cur[i].okr_score,
                                                   prev[j].okr_score)
                     ELSE /\ got[i].okr_score_delta = R(0)
                          /\ got[i].okr_score_trend = "FLAT"

\* A current table with a label the previous table has (its score went up),
\* a label it has not, and a previous table with a label of its own.
C20_Witness ==
    /\ trendOp.op = "calculate_country_trends"
    /\ Len(trendOp.value) = 2
    /\ \E i \in 1..Len(trendOp.current) :
           /\ \E j \in 1..Len(trendOp.previous) :
                  trendOp.previous[j].Country = trendOp.current[i].Country
           /\ trendOp.value[i].okr_score_trend = "UP"
    /\ \E i \in 1..Len(trendOp.current) :
           /\ \A j \in 1..Len(trendOp.previous) :
                  trendOp.previous[j].Country # trendOp.current[i].Country
           /\ trendOp.value[i].okr_score_delta = R(0)
    /\ \E j \in 1..Len(trendOp.previous) :
           \A i \in 1..Len(trendOp.current) :
               trendOp.previous[j].Country # trendOp.current[i].Country


(***************************************************************************)
(* TrendAnalyzer.calculate_burndown_trends (trend_analyzer.py).  A snapshot *)
(* is read for its timestamp and the four KR values of its overall_scores; *)
(* kr1_value, kr2_value and kr4_value are counts, kr3_value a percentage.  *)
(***************************************************************************)

\* Lines 193-203: the result for fewer than two snapshots.
InsufficientHistory ==
    [kr1_velocity |-> R(0), kr2_velocity |-> R(0), kr3_velocity |-> R(0),
     kr4_velocity |-> R(0), trend_direction |-> "stable",
     projection_kr1_days_to_zero |-> None,
     projection_kr2_days_to_zero |-> None,
     has_sufficient_history |-> FALSE]

\* (last_time - first_time).days
ElapsedDays(first, last) ==
    DeltaDays(DateTimeSub(fromisoformat(last.timestamp),
                          fromisoformat(first.timestamp)))

\* The days between the two snapshots, taken as they are.
UnclampedDays(first, last) == ElapsedDays(first, last)

\* Line 211: max(1, (last_time - first_time).days)
days_elapsed(first, last) ==
    IF ElapsedDays(first, last) > 1 THEN ElapsedDays(first, last) ELSE 1

\* Lines 214-217: (from - to) / days_elapsed, a true division.
Velocity(from, to, days) == RDiv(RSub(from, to), R(days))

\* velocity >= 0, where the code tests velocity > 0.
NotNegative(velocity) == RLe(R(0), velocity)

\* velocity > 0
Positive(velocity) == RLt(R(0), velocity)

\* sum([...]) of lines 220-225.
positive_trends(v) ==
    (IF Positive(v.kr1_velocity) THEN 1 ELSE 0)
        + (IF Positive(v.kr2_velocity) THEN 1 ELSE 0)
        + (IF Positive(v.kr3_velocity) THEN 1 ELSE 0)
        + (IF Positive(v.kr4_velocity) THEN 1 ELSE 0)

\* Lines 227-232.
trend_direction(positive) ==
    IF positive >= 3 THEN "improving"
    ELSE IF positive <= 1 THEN "declining"
    ELSE "stable"

\* int(x): the integer part, rounded towards zero.
IntPart(x) ==
    IF x[1] >= 0 THEN x[1] \div x[2] ELSE -((-x[1]) \div x[2])

\* current / velocity whatever the velocity is.
AlwaysDivided(current, velocity) == RDiv(R(current), velocity)

\* Lines 238-239: the division is made only for velocity > 0.
DaysToZero(current, velocity) ==
    IF Positive(velocity) THEN RDiv(R(current), velocity) ELSE None

\* int(...) of the quotient, or None.
Projection(quotient) ==
    IF quotient = None THEN None ELSE PyInt(IntPart(quotient))

\* Lines 205-217: the four velocities.
Velocities(first, last, days) ==
    [kr1_velocity |-> Velocity(R(first.overall_scores.kr1_value),
                               R(last.overall_scores.kr1_value), days),
     kr2_velocity |-> Velocity(R(first.overall_scores.kr2_value),
                               R(last.overall_scores.kr2_value), days),
     kr3_velocity |-> Velocity(last.overall_scores.kr3_value,
                               first.overall_scores.kr3_value, days),
     kr4_velocity |-> Velocity(R(first.overall_scores.kr4_value),
                               R(last.overall_scores.kr4_value), days)]

\* Lines 235-239: the two quotients behind the projections.
Quotients(v, last) ==
    [kr1 |-> DaysToZero(last.overall_scores.kr1_value, v.kr1_velocity),
     kr2 |-> DaysToZero(last.overall_scores.kr2_value, v.kr2_velocity)]

\* A division by zero anywhere in the body raises ZeroDivisionError.
BurndownRaises(v, q) ==
    \/ IsDivZero(v.kr1_velocity) \/ IsDivZero(v.kr2_velocity)
    \/ IsDivZero(v.kr3_velocity) \/ IsDivZero(v.kr4_velocity)
    \/ (q.kr1 # None /\ IsDivZero(q.kr1))
    \/ (q.kr2 # None /\ IsDivZero(q.kr2))

\* Lines 241-252: the dictionary of the return statement.
BurndownResult(v, q, days, analyzed) ==
    IF BurndownRaises(v, q)
    THEN [raised |-> "ZeroDivisionError", value |-> None]
    ELSE Returns(
           [kr1_velocity |-> v.kr1_velocity, kr2_velocity |-> v.kr2_velocity,
            kr3_velocity |-> v.kr3_velocity, kr4_velocity |-> v.kr4_velocity,
            trend_direction |-> trend_direction(positive_trends(v)),
            projection_kr1_days_to_zero |-> Projection(q.kr1),
            projection_kr2_days_to_zero |-> Projection(q.kr2),
            has_sufficient_history |-> TRUE,
            days_elapsed |-> days,
            snapshots_analyzed |-> analyzed])

\* Lines 205-252 for the first and the last snapshot of the list.
BurndownBetween(v, last, days, analyzed) ==
    BurndownResult(v, Quotients(v, last), days, analyzed)

\* Lines 205-252.
BurndownOver(current_snapshots) ==
    LET first == current_snapshots[1]
        last == current_snapshots[Len(current_snapshots)]
    IN BurndownBetween(Velocities(first, last, days_elapsed(first, last)),
                       last, days_elapsed(first, last),
                       Len(current_snapshots))

\* The body without the test of line 193.
UnguardedBurndownTrends(current_snapshots) ==
    IF Len(current_snapshots) = 0
    THEN [raised |-> "IndexError", value |-> None]
    ELSE BurndownOver(current_snapshots)

\* TrendAnalyzer.calculate_burndown_trends
calculate_burndown_trends(current_snapshots) ==
    IF Len(current_snapshots) < 2 THEN Returns(InsufficientHistory)
    ELSE BurndownOver(current_snapshots)

(***************************************************************************)
(* The burndown specification: one call of calculate_burndown_trends on a  *)
(* chronological list of at most MaxSnapshots snapshots.                   *)
(***************************************************************************)

\* Timestamps of stored snapshots, in order: two on one day, one a day and
\* a half after the first, one a week after it.
BurndownTimes ==
    <<DateTime(10, 1, 0), [DateTime(10, 1, 0) EXCEPT !.hour = 12],
      [DateTime(10, 2, 0) EXCEPT !.hour = 12], DateTime(10, 8, 0)>>

KRValues ==
    [kr1_value : {10, 30}, kr2_value : {0, 50},
     kr3_value : {R(70), Rat(155, 2)}, kr4_value : {10, 15}]

\* The positions in BurndownTimes of n snapshots in chronological order.
ChronologicalPicks(n) ==
    { pick \in [1..n -> 1..Len(BurndownTimes)] :
        \A i, j \in 1..n : i < j => pick[i] < pick[j] }

BurndownSnapshots(pick, values) ==
    [i \in 1..Len(pick) |->
        [timestamp |-> isoformat(BurndownTimes[pick[i]]),
         overall_scores |-> values[i]]]

CalculateBurndownTrends(current_snapshots) ==
    LET outcome == calculate_burndown_trends(current_snapshots)
    IN /\ trendOp = NoCall
       /\ trendOp' = [op |-> "calculate_burndown_trends",
                      snapshots |-> current_snapshots,
                      raised |-> outcome.raised, value |-> outcome.value]
       /\ NotTrend

\* One call in a run: the inputs are drawn only while no call was made.
NextBurndown ==
    /\ trendOp = NoCall
    /\ \E n \in 0..MaxSnapshots :
           \E pick \in ChronologicalPicks(n), values \in [1..n -> KRValues] :
               CalculateBurndownTrends(BurndownSnapshots(pick, values))

SpecBurndown == InitTrend /\ [][NextBurndown]_vars


(***************************************************************************)
(* Properties of the burndown trends (checked under SpecBurndown).         *)
(***************************************************************************)
BurndownCall == trendOp.op = "calculate_burndown_trends"

FirstScores == trendOp.snapshots[1].overall_scores

LastScores == trendOp.snapshots[Len(trendOp.snapshots)].overall_scores

\* Whole days from the first to the last timestamp of the list.
WholeDaysBetween ==
    (SecondOfYear(fromisoformat(trendOp.snapshots[Len(trendOp.snapshots)].timestamp))
        - SecondOfYear(fromisoformat(trendOp.snapshots[1].timestamp)))
      \div 86400

Divisor == IF WholeDaysBetween >= 1 THEN WholeDaysBetween ELSE 1

\* C21: with fewer than 2 snapshots (none or one) the result is the
\* insufficient-history one: the four velocities are 0, neither KR has a
\* projection, has_sufficient_history is false, and nothing is raised.
C21_InsufficientHistory ==
    (BurndownCall /\ Len(trendOp.snapshots) < 2) =>
        /\ trendOp.raised = "none"
        /\ trendOp.value.kr1_velocity = R(0)
        /\ trendOp.value.kr2_velocity = R(0)
        /\ trendOp.value.kr3_velocity = R(0)
        /\ trendOp.value.kr4_velocity = R(0)
        /\ trendOp.value.projection_kr1_days_to_zero = None
        /\ trendOp.value.projection_kr2_days_to_zero = None
        /\ trendOp.value.has_sufficient_history = FALSE

\* The burndown of a single snapshot.
C21_Witness ==
    /\ BurndownCall
    /\ Len(trendOp.snapshots) = 1
    /\ trendOp.raised = "none"
    /\ trendOp.value.has_sufficient_history = FALSE

\* C22: for a chronological list of at least 2 snapshots the velocity of
\* KR1, KR2 and KR4 is (first value - last value) / max(1, whole days from
\* first to last) and that of KR3 is (last value - first value) over the
\* same divisor; a positive velocity is an improvement, and snapshots less
\* than a day apart are divided by 1, never by 0.
C22_VelocityOverWholeDays ==
    (BurndownCall /\ Len(trendOp.snapshots) >= 2) =>
        /\ trendOp.raised = "none"
        /\ trendOp.value.days_elapsed = Divisor
        /\ RMul(trendOp.value.kr1_velocity, R(Divisor))
               = R(FirstScores.kr1_value - LastScores.kr1_value)
        /\ RMul(trendOp.value.kr2_velocity, R(Divisor))
               = R(FirstScores.kr2_value - LastScores.kr2_value)
        /\ RMul(trendOp.value.kr3_velocity, R(Divisor))
               = RSub(LastScores.kr3_value, FirstScores.kr3_value)
        /\ RMul(trendOp.value.kr4_velocity, R(Divisor))
               = R(FirstScores.kr4_value - LastScores.kr4_value)
        /\ trendOp.value.kr1_velocity[1] > 0
               <=> LastScores.kr1_value < FirstScores.kr1_value
        /\ trendOp.value.kr2_velocity[1] > 0
               <=> LastScores.kr2_value < FirstScores.kr2_value
        /\ trendOp.value.kr3_velocity[1] > 0
               <=> RLt(FirstScores.kr3_value, LastScores.kr3_value)
        /\ trendOp.value.kr4_velocity[1] > 0
               <=> LastScores.kr4_value < FirstScores.kr4_value

\* Two snapshots twelve hours apart whose KR1 count went from 30 to 10.
C22_Witness ==
    /\ BurndownCall
    /\ Len(trendOp.snapshots) = 2
    /\ WholeDaysBetween = 0
    /\ trendOp.raised = "none"
    /\ trendOp.value.kr1_velocity = R(20)
    /\ trendOp.value.days_elapsed = 1

PositiveVelocities ==
    Cardinality({ k \in {"kr1_velocity", "kr2_velocity", "kr3_velocity",
                         "kr4_velocity"} : trendOp.value[k][1] > 0 })

\* C23: with at least 2 snapshots trend_direction is 'improving' when 3 or
\* 4 of the velocities are strictly positive, 'declining' when none or one
\* is, 'stable' when exactly 2 are; a velocity of 0 is not positive, so
\* four unchanged KR values give 'declining'.
C23_TrendDirection ==
    (BurndownCall /\ Len(trendOp.snapshots) >= 2) =>
        /\ trendOp.raised = "none"
        /\ PositiveVelocities >= 3
               <=> trendOp.value.trend_direction = "improving"
        /\ PositiveVelocities <= 1
               <=> trendOp.value.trend_direction = "declining"
        /\ PositiveVelocities = 2
               <=> trendOp.value.trend_direction = "stable"
        /\ FirstScores = LastScores
               => trendOp.value.trend_direction = "declining"

\* Four unchanged KR values over a week.
C23_Witness ==
    /\ BurndownCall
    /\ Len(trendOp.snapshots) >= 2
    /\ FirstScores = LastScores
    /\ trendOp.raised = "none"
    /\ trendOp.value.kr1_velocity = R(0)
    /\ trendOp.value.kr3_velocity = R(0)
    /\ trendOp.value.trend_direction = "declining"

\* The projection of a KR: none unless the velocity is strictly positive,
\* then the integer part of current / velocity.
ProjectedFrom(projection, current, velocity) ==
    IF velocity[1] > 0
    THEN /\ projection # None
         /\ projection.v >= 0
         /\ RLe(RMul(R(projection.v), velocity), R(current))
         /\ RLt(R(current), RMul(R(projection.v + 1), velocity))
    ELSE projection = None

\* C24: a days-to-zero projection exists only for a strictly positive
\* velocity and is then the integer part of current value / velocity; for
\* a zero or negative velocity there is none, so a projection is never
\* negative and computing it never divides by zero.
C24_ProjectionOnlyWhenPositive ==
    (BurndownCall /\ Len(trendOp.snapshots) >= 2) =>
        /\ trendOp.raised = "none"
        /\ ProjectedFrom(trendOp.value.projection_kr1_days_to_zero,
                         LastScores.kr1_value, trendOp.value.kr1_velocity)
        /\ ProjectedFrom(trendOp.value.projection_kr2_days_to_zero,
                         LastScores.kr2_value, trendOp.value.kr2_velocity)

\* KR1 falls by 20 in 7 days with 10 left: 3.5 days, projected as 3; KR2
\* rises, so it has no projection.
C24_Witness ==
    /\ BurndownCall
    /\ Len(trendOp.snapshots) >= 2
    /\ trendOp.raised = "none"
    /\ trendOp.value.kr1_velocity = Rat(20, 7)
    /\ LastScores.kr1_value = 10
    /\ trendOp.value.projection_kr1_days_to_zero = PyInt(3)
    /\ trendOp.value.kr2_velocity[1] < 0
    /\ trendOp.value.projection_kr2_days_to_zero = None


(***************************************************************************)
(* One analysis run: main of okr_tracker.py, phases 1 to 4, with the       *)
(* default --level all.  A run is at the step it has just made; runs follow *)
(* each other, none overlaps another.                                      *)
(***************************************************************************)

\* The Python value behind each entry of a dictionary read from JSON.
Native(d) == [k \in DOMAIN d |-> d[k].v]

NativeRows(table) == [i \in 1..Len(table.rows) |-> Native(table.rows[i])]

\* A score table row as pandas holds it: labels and arrows are text, the
\* scores and deltas floats.
TypedRow(row) ==
    [k \in DOMAIN row |->
        IF k \in {"Country", "SDM", "okr_score_trend"} THEN PyStr(row[k])
        ELSE PyFloat(row[k])]

TypedFrame(rows) == DataFrameOf([i \in 1..Len(rows) |-> TypedRow(rows[i])])

\* The steps of phase 3.5 with the save first and the trends after it.
SaveThenTrends == <<"analysed", "saved", "read", "trended", "burned">>

\* Lines 621-750 in the order of the statements: the analysis (phases 1 to
\* 3), the reads of the history (717-718), the trends (720-739), the
\* burndown (741-744), the save (746-749).
ProgramOrder == <<"analysed", "read", "trended", "burned", "saved">>

\* The step that precedes the given one.
StepBefore(step) ==
    LET i == CHOOSE i \in 1..Len(ProgramOrder) : ProgramOrder[i] = step
    IN ProgramOrder[i - 1]

LastStep == ProgramOrder[Len(ProgramOrder)]

\* What phases 1 to 3 hand over: calculate_okr_scores and the aggregations.
RunScores(okr_score, kr1_value, kr3_value, uk_score) ==
    [overall_scores |->
         [okr_score |-> PyFloat(okr_score),
          kr1_score |-> PyFloat(R(90)), kr2_score |-> PyFloat(R(80)),
          kr3_score |-> PyFloat(kr3_value), kr4_score |-> PyFloat(R(100)),
          kr1_value |-> PyInt(kr1_value), kr2_value |-> PyInt(50),
          kr3_value |-> PyFloat(kr3_value), kr4_value |-> PyInt(0)],
     country_scores |->
         DataFrameOf(<<[Country |-> PyStr("UK"), okr_score |-> PyFloat(uk_score)]>>),
     sdm_scores |-> EmptyFrame,
     site_scores |-> EmptyFrame]

RunPayloads ==
    { RunScores(R(80), 30, R(70), R(80)),
      RunScores(Rat(171, 2), 10, Rat(155, 2), R(82)) }

\* Values of datetime.now() in a run; the calls of one run fall in the same
\* microsecond of the model.
RunTimes ==
    { DateTime(10, 3, 0), DateTime(10, 3, 500000),
      [DateTime(10, 3, 0) EXCEPT !.second = 1], DateTime(10, 10, 0) }

\* The clock does not run backwards from one run to the next.
NotEarlier(now) ==
    IF run.ended = <<>> THEN TRUE
    ELSE DateTimeLe(run.ended[Len(run.ended)].now, now)

NotRun == UNCHANGED <<config, scoreVars, aggVars, trendVars, calcVars>>

StoreUntouched == UNCHANGED <<files, saved, storeOp, writing>>

\* The run ends: complete, or failed at the named step (main catches the
\* exception, prints it and exits with status 1).
Ended(outcome) ==
    [run EXCEPT !.pc = "ended",
                !.ended = Append(run.ended,
                                 [now |-> run.now, outcome |-> outcome])]

\* Lines 621-707: phases 1 to 3 produce the scores of the run.
RunAnalysis(payload, now) ==
    /\ run.pc \in {"idle", "ended"}
    /\ Len(run.ended) < MaxRuns
    /\ NotEarlier(now)
    /\ run' = [pc |-> "analysed", now |-> now, ended |-> run.ended,
               overall_scores |-> payload.overall_scores,
               country_scores |-> payload.country_scores,
               sdm_scores |-> payload.sdm_scores,
               site_scores |-> payload.site_scores,
               previous_snapshot |-> None, all_snapshots |-> <<>>,
               trend_data |-> None, burndown_trends |-> None,
               snapshot_path |-> None]
    /\ StoreUntouched
    /\ NotRun

\* Lines 621-707 raise (no data file, an unreadable sheet, a division by
\* zero in the scores): the run stops before phase 3.5.
AnalysisFails(now) ==
    /\ run.pc \in {"idle", "ended"}
    /\ Len(run.ended) < MaxRuns
    /\ NotEarlier(now)
    /\ run' = [pc |-> "ended", now |-> now,
               ended |-> Append(run.ended,
                                [now |-> now, outcome |-> "failed before save"]),
               overall_scores |-> None, country_scores |-> EmptyFrame,
               sdm_scores |-> EmptyFrame, site_scores |-> EmptyFrame,
               previous_snapshot |-> None, all_snapshots |-> <<>>,
               trend_data |-> None, burndown_trends |-> None,
               snapshot_path |-> None]
    /\ StoreUntouched
    /\ NotRun

\* Lines 709-718: the timestamp is added to overall_scores, then
\* get_previous_snapshot(days_back=7) and get_all_snapshots().
ReadHistory ==
    LET previous == get_previous_snapshot(files, 7, run.now)
        all == get_all_snapshots(files)
    IN /\ run.pc = StepBefore("read")
       /\ run' = IF previous.raised # "none" \/ all.raised # "none"
                 THEN Ended(IF run.snapshot_path = None
                            THEN "failed before save" ELSE "failed after save")
                 ELSE [run EXCEPT
                         !.pc = "read",
                         !.overall_scores =
                             run.overall_scores
                                 @@ [timestamp |-> PyStr(isoformat(run.now))],
                         !.previous_snapshot = previous.value,
                         !.all_snapshots = all.value]
       /\ StoreUntouched
       /\ NotRun

\* Lines 729-732 and 733-736: the table trends, for a table that has rows.
TableTrends(table, previous_df, on) ==
    IF Len(table.rows) > 0
    THEN TypedFrame(DimensionTrends(NativeRows(table), NativeRows(previous_df), on))
    ELSE table

\* Lines 720-739: the trends against the previous snapshot, when there is
\* one.
CalculateTrends ==
    /\ run.pc = StepBefore("trended")
    /\ run' = IF run.previous_snapshot = None
              THEN [run EXCEPT !.pc = "trended"]
              ELSE [run EXCEPT
                      !.pc = "trended",
                      !.trend_data =
                          calculate_overall_trends(
                              Native(run.overall_scores),
                              Native(run.previous_snapshot.overall_scores)).value,
                      !.country_scores =
                          TableTrends(run.country_scores,
                                      run.previous_snapshot.country_scores_df,
                                      "Country"),
                      !.sdm_scores =
                          TableTrends(run.sdm_scores,
                                      run.previous_snapshot.sdm_scores_df,
                                      "SDM")]
    /\ StoreUntouched
    /\ NotRun

\* The snapshots as calculate_burndown_trends reads them.
BurndownInput(snapshots) ==
    [i \in 1..Len(snapshots) |->
        [timestamp |-> snapshots[i].timestamp.v,
         overall_scores |-> Native(snapshots[i].overall_scores)]]

\* Lines 741-744: the burndown, when the history has two snapshots or more.
CalculateBurndown ==
    /\ run.pc = StepBefore("burned")
    /\ run' = IF Len(run.all_snapshots) >= 2
              THEN [run EXCEPT
                      !.pc = "burned",
                      !.burndown_trends =
                          calculate_burndown_trends(
                              BurndownInput(run.all_snapshots)).value]
              ELSE [run EXCEPT !.pc = "burned"]
    /\ StoreUntouched
    /\ NotRun

\* Lines 746-749: save_snapshot(overall_scores, country_scores, sdm_scores,
\* site_scores), the timestamp being datetime.now().
SaveRunSnapshot ==
    LET call == [overall_scores |-> run.overall_scores,
                 country_scores |-> run.country_scores,
                 sdm_scores |-> run.sdm_scores,
                 site_scores |-> run.site_scores,
                 timestamp |-> run.now]
    IN /\ run.pc = StepBefore("saved")
       /\ files' = save_snapshot(files, call)
       /\ saved' = Append(saved, call)
       /\ storeOp' = [op |-> "save_snapshot", call |-> call, raised |-> "none",
                      value |-> strftime(call.timestamp)]
       /\ UNCHANGED writing
       /\ run' = [run EXCEPT !.pc = "saved",
                             !.snapshot_path = PyStr(strftime(call.timestamp))]
       /\ NotRun

\* Lines 752-813: phase 4 writes the report and the run is complete.
GenerateOutput ==
    /\ run.pc = LastStep
    /\ run' = Ended("complete")
    /\ StoreUntouched
    /\ NotRun

\* Lines 752-813 raise (the report cannot be written).
OutputFails ==
    /\ run.pc = LastStep
    /\ run' = Ended(IF run.snapshot_path = None
                    THEN "failed before save" ELSE "failed after save")
    /\ StoreUntouched
    /\ NotRun

InitRun ==
    /\ config = DefaultConfig
    /\ ScoreIdle
    /\ AggIdle
    /\ StoreIdle
    /\ TrendIdle
    /\ RunIdle
    /\ CalcIdle

NextRun ==
    \/ \E payload \in RunPayloads, now \in RunTimes : RunAnalysis(payload, now)
    \/ \E now \in RunTimes : AnalysisFails(now)
    \/ ReadHistory
    \/ CalculateTrends
    \/ CalculateBurndown
    \/ SaveRunSnapshot
    \/ GenerateOutput
    \/ OutputFails

SpecRun == InitRun /\ [][NextRun]_vars


(***************************************************************************)
(* Properties of the analysis run (checked under SpecRun).                 *)
(***************************************************************************)

\* The store after the given save_snapshot calls, made in order on an empty
\* history directory.
RECURSIVE StoreOf(_)
StoreOf(calls) ==
    IF calls = <<>> THEN <<>>
    ELSE save_snapshot(StoreOf(SubSeq(calls, 1, Len(calls) - 1)),
                       calls[Len(calls)])

\* The store as the runs before the current one left it.
StoreBeforeOwnSave == StoreOf(SubSeq(saved, 1, Len(saved) - 1))

\* The run has made its trend steps.
TrendsMade == run.pc \in {"read", "trended", "burned"}

\* C25 as claimed: the snapshot of a run is persisted before its trend
\* steps, so the history is read and the trends and the burndown are
\* computed with the run's own snapshot already in the store.
C25_SavedBeforeTrends == TrendsMade => run.snapshot_path # None

\* C25 as amended: the history is read and the trends and the burndown are
\* computed before the run's snapshot is persisted; they see the store as
\* the earlier runs left it, and the save is the step after the burndown.
C25_TrendsBeforeSave ==
    /\ [](TrendsMade =>
            /\ run.snapshot_path = None
            /\ files = StoreOf(saved)
            /\ run.all_snapshots = get_all_snapshots(files).value
            /\ run.previous_snapshot
                   = get_previous_snapshot(files, 7, run.now).value)
    /\ [](run.pc = "saved" =>
            /\ run.all_snapshots = get_all_snapshots(StoreBeforeOwnSave).value
            /\ run.previous_snapshot
                   = get_previous_snapshot(StoreBeforeOwnSave, 7, run.now).value
            /\ Len(run.all_snapshots) >= 2 <=> run.burndown_trends # None
            /\ run.previous_snapshot # None <=> run.trend_data # None)
    /\ [][files' # files => run.pc = "burned" /\ run'.pc = "saved"]_vars

\* A third run has compared itself with an earlier snapshot, computed the
\* burndown over the two stored snapshots, and has just saved its own.
C25_Witness ==
    /\ run.pc = "saved"
    /\ Len(run.ended) = 2
    /\ Len(run.all_snapshots) = 2
    /\ run.trend_data # None
    /\ run.burndown_trends # None
    /\ count_snapshots(files).value = 3

RunsThat(outcome) ==
    { i \in 1..Len(run.ended) : run.ended[i].outcome = outcome }

\* The complete runs were made in pairwise different seconds.
DifferentSeconds ==
    \A i, j \in RunsThat("complete") :
        SecondOf(run.ended[i].now) = SecondOf(run.ended[j].now) => i = j

\* C27: from an empty store, when every run so far was complete or stopped
\* with an error before its save, and the complete runs were made in
\* pairwise different seconds, count_snapshots is the number of complete
\* runs; no step of a run that has not saved changes the store.
C27_OneSnapshotPerCompleteRun ==
    /\ []((/\ run.pc \in {"idle", "ended"}
           /\ RunsThat("failed after save") = {}
           /\ DifferentSeconds)
             => /\ count_snapshots(files).raised = "none"
                /\ count_snapshots(files).value
                       = Cardinality(RunsThat("complete")))
    /\ [][run'.snapshot_path = None => files' = files]_vars

\* Two complete runs one second apart and a run that failed before its
\* save: two snapshots.
C27_Witness ==
    /\ run.pc = "ended"
    /\ Cardinality(RunsThat("complete")) = 2
    /\ Cardinality(RunsThat("failed before save")) = 1
    /\ RunsThat("failed after save") = {}
    /\ DifferentSeconds
    /\ \E i, j \in RunsThat("complete") :
           DateTimeSub(run.ended[j].now, run.ended[i].now) = <<1, 0>>
    /\ count_snapshots(files).value = 2


(***************************************************************************)
(* Properties of the status and its thresholds (checked under SpecScore).  *)
(***************************************************************************)

\* C29: in every returned result the status agrees with the okr_score of
\* the same result, which is rounded to one decimal: ON TRACK exactly when
\* that okr_score >= on_track, CAUTION exactly when caution <= okr_score <
\* on_track, AT RISK exactly when okr_score < caution.
C29_StatusAgreesWithReportedScore ==
    (Called /\ raised = "none") =>
        LET reported == scores.okr_score
            on_track == R(config.thresholds.on_track_min_progress)
            caution == R(config.thresholds.caution_min_progress)
        IN /\ scores.status = "ON TRACK" <=> RLe(on_track, reported)
           /\ scores.status = "CAUTION"
                  <=> (RLe(caution, reported) /\ RLt(reported, on_track))
           /\ scores.status = "AT RISK" <=> RLt(reported, caution)


\* The thresholds of the configuration are not strictly ordered.
Unordered ==
    config.thresholds.on_track_min_progress
        <= config.thresholds.caution_min_progress

\* C26: a configuration whose on_track threshold is not greater than its
\* caution threshold is rejected before any score is classified: the call
\* raises and there is no result.
C26_UnorderedThresholdsRejected ==
    (Called /\ Unordered) => (raised # "none" /\ scores = None)

\* C30: with on_track <= caution every call still returns a result and
\* CAUTION is never assigned: an overall score >= on_track is ON TRACK and
\* every other overall score is AT RISK.
C30_NoCautionWhenUnordered ==
    (Called /\ Unordered) =>
        /\ raised = "none"
        /\ scores # None
        /\ scores.status # "CAUTION"
        /\ scores.status = "ON TRACK"
               <=> RLe(R(config.thresholds.on_track_min_progress),
                       frame.okr_score)
        /\ scores.status = "AT RISK"
               <=> RLt(frame.okr_score,
                       R(config.thresholds.on_track_min_progress))

\* An overall score between on_track = 60 and caution = 80, classified
\* ON TRACK.
C30_Witness ==
    /\ Called
    /\ config.thresholds.on_track_min_progress = 60
    /\ config.thresholds.caution_min_progress = 80
    /\ raised = "none"
    /\ RLt(R(60), frame.okr_score)
    /\ RLt(frame.okr_score, R(80))
    /\ scores.status = "ON TRACK"


(***************************************************************************)
(* BurndownCalculator (burndown_calculator.py).  current_date is set by    *)
(* __init__ to datetime.now(); the target dates are the 'YYYY-MM-DD' texts *)
(* of the configuration, here dates of the year of the model.              *)
(***************************************************************************)

\* datetime.strptime(text, '%Y-%m-%d'): midnight of the day.
strptime(text) ==
    [year |-> text[1], month |-> text[2], day |-> text[3], hour |-> 0,
     minute |-> 0, second |-> 0, microsecond |-> 0]

\* The esol_categories and kpi_target_date of the configuration.
TargetDates ==
    [esol_2024 |-> <<2025, 6, 30>>, esol_2025 |-> <<2025, 10, 31>>,
     esol_2026 |-> <<2025, 12, 31>>, kpi_target_date |-> <<2025, 10, 31>>]

\* (target - self.current_date).days
days_remaining(target_date, now) ==
    DeltaDays(DateTimeSub(strptime(target_date), now))

\* count / days_remaining if days_remaining > 0 else 0
daily_burn_rate(count, days) ==
    IF days > 0 THEN RDiv(R(count), R(days)) ELSE R(0)

\* The limit in days under which a category is AT RISK: 30 for ESOL 2024,
\* 60 for ESOL 2025, none for ESOL 2026 (lines 61, 73, 85).
EsolStatus(category, days) ==
    IF category = "ESOL 2024" /\ days <= 30 THEN "AT RISK"
    ELSE IF category = "ESOL 2025" /\ days <= 60 THEN "AT RISK"
    ELSE "ON TRACK"

\* One dictionary of burndown_data, lines 54-62, 66-74, 78-86.
EsolBurndownRow(category, target_date, count, now) ==
    [category |-> category,
     target_date |-> target_date,
     days_remaining |-> days_remaining(target_date, now),
     remaining_devices |-> count,
     daily_burn_rate_needed |->
         Round(daily_burn_rate(count, days_remaining(target_date, now)), 2),
     status |-> EsolStatus(category, days_remaining(target_date, now))]

\* A division by zero in a row raises ZeroDivisionError.
RowsOutcome(rows) ==
    IF \E i \in 1..Len(rows) : IsDivZero(rows[i].daily_burn_rate_needed)
    THEN [raised |-> "ZeroDivisionError", value |-> None]
    ELSE Returns(rows)

\* BurndownCalculator.calculate_esol_burndown
calculate_esol_burndown(now, esol_2024_count, esol_2025_count, esol_2026_count) ==
    RowsOutcome(
        <<EsolBurndownRow("ESOL 2024", TargetDates.esol_2024, esol_2024_count, now),
          EsolBurndownRow("ESOL 2025", TargetDates.esol_2025, esol_2025_count, now),
          EsolBurndownRow("ESOL 2026", TargetDates.esol_2026, esol_2026_count, now)>>)

\* round((completed_count / total_eligible) * 100, 1) if total_eligible > 0
\* else 0
completion_percentage(total_eligible, completed_count) ==
    IF total_eligible > 0
    THEN Round(RMul(RDiv(R(completed_count), R(total_eligible)), R(100)), 1)
    ELSE R(0)

\* The dictionary of lines 118-128.
Win11Burndown(now, total_eligible, completed_count, days) ==
    [analysis_date |-> <<now.year, now.month, now.day>>,
     target_date |-> TargetDates.kpi_target_date,
     days_remaining |-> days,
     total_eligible_devices |-> total_eligible,
     completed_devices |-> completed_count,
     remaining_devices |-> total_eligible - completed_count,
     completion_percentage |->
         completion_percentage(total_eligible, completed_count),
     daily_burn_rate_needed |->
         Round(daily_burn_rate(total_eligible - completed_count, days), 2),
     kpi_status |->
         IF RLe(R(100), completion_percentage(total_eligible, completed_count))
         THEN "ON TRACK" ELSE "AT RISK"]

\* BurndownCalculator.calculate_win11_burndown
calculate_win11_burndown(now, total_eligible, completed_count) ==
    LET result == Win11Burndown(now, total_eligible, completed_count,
                                days_remaining(TargetDates.kpi_target_date, now))
    IN IF IsDivZero(result.daily_burn_rate_needed)
          \/ IsDivZero(result.completion_percentage)
       THEN [raised |-> "ZeroDivisionError", value |-> None]
       ELSE Returns(result)

(***************************************************************************)
(* The calculator specification: a calculator constructed at some moment,  *)
(* then one call of one of its two calculations.                           *)
(***************************************************************************)

\* Moments of construction: well before the first target, a few hours
\* before and after the midnight of a target date, and after all targets
\* but the last.
CurrentDates ==
    { DateTime(6, 1, 0), [DateTime(6, 29, 0) EXCEPT !.hour = 10],
      DateTime(6, 30, 0), [DateTime(6, 30, 0) EXCEPT !.hour = 10],
      [DateTime(10, 30, 0) EXCEPT !.hour = 10], DateTime(11, 15, 0) }

EsolCounts == {0, 7, 60}

Win11Counts == { <<0, 0>>, <<4000, 1500>>, <<1000, 800>>, <<1000, 1000>> }

\* BurndownCalculator.__init__
InitCalculator ==
    /\ config = DefaultConfig
    /\ ScoreIdle
    /\ AggIdle
    /\ StoreIdle
    /\ TrendIdle
    /\ RunIdle
    /\ current_date \in CurrentDates
    /\ calcOp = NoCall

NotCalculator ==
    UNCHANGED <<config, scoreVars, aggVars, storeVars, trendVars, runVars>>

CalculateEsolBurndown(esol_2024_count, esol_2025_count, esol_2026_count) ==
    LET outcome == calculate_esol_burndown(current_date, esol_2024_count,
                                           esol_2025_count, esol_2026_count)
    IN /\ calcOp = NoCall
       /\ calcOp' = [op |-> "calculate_esol_burndown",
                     raised |-> outcome.raised, value |-> outcome.value]
       /\ UNCHANGED current_date
       /\ NotCalculator

CalculateWin11Burndown(total_eligible, completed_count) ==
    LET outcome == calculate_win11_burndown(current_date, total_eligible,
                                            completed_count)
    IN /\ calcOp = NoCall
       /\ calcOp' = [op |-> "calculate_win11_burndown",
                     raised |-> outcome.raised, value |-> outcome.value]
       /\ UNCHANGED current_date
       /\ NotCalculator

NextCalculator ==
    \/ \E a, b, c \in EsolCounts : CalculateEsolBurndown(a, b, c)
    \/ \E counts \in Win11Counts : CalculateWin11Burndown(counts[1], counts[2])

SpecCalculator == InitCalculator /\ [][NextCalculator]_vars

(***************************************************************************)
(* Property of the calculator (checked under SpecCalculator).              *)
(***************************************************************************)

\* remaining / days (rounded to 2 decimals) whenever the quotient exists,
\* and 0 when no device remains.
RateAsClaimed(rate, remaining, days) ==
    /\ days # 0 => rate = Round(Rat(remaining, days), 2)
    /\ remaining = 0 => rate = R(0)

\* C28: daily_burn_rate_needed is remaining_devices / days_remaining,
\* rounded to 2 decimals, for each ESOL category and for the Windows 11
\* upgrade, wherever the current date lies relative to the target date, and
\* 0 when no devices remain; a target date of today or of the past never
\* makes a call raise.
C28_BurnRateIsRemainingOverDays ==
    /\ calcOp.op # "none" => calcOp.raised = "none"
    /\ (calcOp.op = "calculate_esol_burndown" /\ calcOp.raised = "none") =>
           \A i \in 1..Len(calcOp.value) :
               RateAsClaimed(calcOp.value[i].daily_burn_rate_needed,
                             calcOp.value[i].remaining_devices,
                             calcOp.value[i].days_remaining)
    /\ (calcOp.op = "calculate_win11_burndown" /\ calcOp.raised = "none") =>
           RateAsClaimed(calcOp.value.daily_burn_rate_needed,
                         calcOp.value.remaining_devices,
                         calcOp.value.days_remaining)
====
